---------------------------- MODULE Spec2Model ----------------------------
(***************************************************************************)
(* DC-Motor-Control: the control loop of main.cpp (v3.0.0) together with   *)
(* the rate-limited HC-SR04 driver (ultraSonic.cpp v3.0.0), the L293D      *)
(* motor driver (motor.cpp v2.1.0) and the RGB status LED (led.cpp v1.0.0).*)
(*                                                                         *)
(* Time is the Arduino millis() counter, an unsigned 32-bit value.  One    *)
(* loop() invocation is one step; the environment chooses how many         *)
(* milliseconds passed since the previous invocation and, when the sensor  *)
(* is triggered, the width of the echo pulse in microseconds.              *)
(***************************************************************************)
EXTENDS Integers, Sequences, FiniteSets, TLC

-----------------------------------------------------------------------------
(* Bounds of the exploration *)

\* total milliseconds of run time explored
MaxTime == 1000

\* largest reading (cm) fed to the speed mapping when it is explored alone
MaxMapCm == 70

\* milliseconds between two consecutive loop() invocations (0: the same
\* millisecond, as when loop() returns early and is called again at once)
Deltas == {0, 10, 50, 200, 490}

\* total milliseconds explored when the sensor is called on its own
MaxSonicTime == 300

\* milliseconds between two consecutive readCM() calls
SonicDeltas == {20, 30, 50}

\* echo widths when the sensor is called on its own: timeout, 0 cm, 1 cm,
\* 2 cm, 40 cm, 400 cm, 401 cm
SonicEchoUs == {0, 57, 115, 116, 2320, 23200, 23258}

\* largest echo width (microseconds) fed to the conversion explored alone;
\* pulseIn() gives up at 30000
MaxEchoUs == 30000

\* readings cached before the conversion explored alone
EchoPriors == {0, 40}

\* total milliseconds explored when loop() is invoked off the tick grid
MaxSchedTime == 200

\* milliseconds between two consecutive loop() invocations, off the grid
SchedDeltas == {5, 10, 50}

\* largest |percent| passed to setSpeed() when the motor is driven on its own
MaxPct == 103

\* echo pulse widths (microseconds) the sensor hardware may report:
\* timeout, 7 cm, 40 cm, 59 cm (upper edge), 60 cm, 70 cm
EchoUs == {0, 406, 2320, 3479, 3480, 4060}

\* milliseconds of run time explored with the indicator on its own
MaxLedTime == 1250

\* milliseconds between two consecutive calls to the indicator: the same
\* instant, and the half and the whole of the error half-period (500)
LedDeltas == {0, 250, 500}

\* commanded percents: below the range (clamped to 0), the midpoint, above
\* the range (clamped to 100)
LedCmds == {-20, 50, 103}

\* milliseconds of run time explored with the indicator ramping
MaxRampTime == 300

\* milliseconds between two consecutive update() calls while ramping: half
\* the ramp step and the ramp step (20)
RampDeltas == {10, 20}

\* the loop followed across the wrap of millis(): the run starts WrapLead ms
\* before the counter returns to 0
WrapLead == 295
WrapStart == <<65535, 65536 - WrapLead>>

\* the indicator with a held command: update() called every 10 or 20 ms for
\* MaxHoldTime ms, with the same command from HoldBy on
MaxHoldTime == 520
HoldBy == 120
HoldCmds == {-20, 5, 12}

\* the loop with an open path: every reading of a tick processed FarBy ms
\* after boot or later is 60 cm or more
FarBy == 100
FarDeltas == {0, 10, 50}

\* the mode resolution explored alone: modes, entry times (boot, mid-range,
\* 300 ms and 1 ms before millis() wraps), ages of the mode and readings
Modes == {"NORMAL", "STOPPING", "REVERSING", "SLOW_FORWARD"}
ResolveStarts == {<<0, 0>>, <<3, 1000>>, <<65535, 65236>>, <<65535, 65535>>}
ResolveAges ==
    {<<0, 0>>, <<0, 199>>, <<0, 200>>, <<0, 300>>, <<0, 499>>, <<0, 500>>,
     <<0, 700>>, <<0, 5000>>, <<1, 0>>, <<40000, 7>>}
ResolveCm == {0, 5, 6, 40, 59, 60, 70}

-----------------------------------------------------------------------------
(* Program constants *)

\* an unsigned long is 32 bits wide; it is kept as two 16-bit halves
\* <<high, low>>, each below H16
H16 == 65536

UPDATE_INTERVAL_MS == 10
STOP_TIME_MS == 500
REVERSE_TIME_MS == 200
MIN_DIST_CM == 5
MAX_DIST_CM == 60

MIN_INTERVAL_MS == 50

DEAD_BAND_PERCENT == 3

\* largest magnitude setSpeed() maps to a duty, after constrain()
MAX_PERCENT == 100

MotorMode == {"NORMAL", "STOPPING", "REVERSING", "SLOW_FORWARD"}

-----------------------------------------------------------------------------
(* Arithmetic of the target *)

\* the unsigned long 0
Zero32 == <<0, 0>>

\* unsigned long addition t + d, for 0 <= d < H16, wrapping at 2^32
Add32(t, d) ==
    LET s == t[2] + d IN <<(t[1] + (s \div H16)) % H16, s % H16>>

\* unsigned long addition a + b of two unsigned long values, wrapping at 2^32
Sum32(a, b) ==
    LET s == a[2] + b[2] IN <<(a[1] + b[1] + (s \div H16)) % H16, s % H16>>

\* a - b computed without the wrap: 0 whenever a is below b
Sub32_NoWrap(a, b) ==
    IF a[1] < b[1] \/ (a[1] = b[1] /\ a[2] < b[2]) THEN <<0, 0>>
    ELSE LET l == a[2] - b[2]
             borrow == IF l < 0 THEN 1 ELSE 0
         IN <<a[1] - b[1] - borrow, l % 65536>>

\* unsigned long subtraction a - b, wrapping at 2^32
Sub32(a, b) ==
    LET l == a[2] - b[2]
        borrow == IF l < 0 THEN 1 ELSE 0
    IN <<(a[1] - b[1] - borrow) % H16, l % H16>>

\* unsigned comparison x < k, for a constant 0 < k <= H16
Less32(x, k) == x[1] = 0 /\ x[2] < k

\* C integer division: truncation toward zero (b > 0)
CDiv(a, b) == IF a >= 0 THEN a \div b ELSE -((-a) \div b)

Abs(x) == IF x < 0 THEN -x ELSE x

\* Arduino map(): long arithmetic, truncating division
ArduinoMap(x, in_min, in_max, out_min, out_max) ==
    CDiv((x - in_min) * (out_max - out_min), in_max - in_min) + out_min

\* Arduino constrain()
Constrain(x, lo, hi) == IF x < lo THEN lo ELSE IF x > hi THEN hi ELSE x


-----------------------------------------------------------------------------
(* Single-precision arithmetic of the colour gradient.  A float is          *)
(* [m, k], the value m / 2^k with 2^23 <= m < 2^24, or m = 0; results are   *)
(* rounded to nearest, ties to even, as IEEE 754 binary32 does.             *)

RECURSIVE Pow2(_)
Pow2(n) == IF n = 0 THEN 1 ELSE 2 * Pow2(n - 1)

\* x / 2^s rounded to the nearest integer, ties to even
RoundShift(x, s) ==
    IF s = 0 THEN x
    ELSE LET q == x \div Pow2(s)
             r == x % Pow2(s)
             h == Pow2(s - 1)
         IN IF r > h \/ (r = h /\ q % 2 = 1) THEN q + 1 ELSE q

RECURSIVE BitLen(_)
BitLen(x) == IF x = 0 THEN 0 ELSE 1 + BitLen(x \div 2)

\* the float nearest to num / 2^k, for 0 <= num < 2^31
F32(num, k) ==
    LET b == BitLen(num) IN
    IF num = 0 THEN [m |-> 0, k |-> 0]
    ELSE IF b <= 24 THEN [m |-> num * Pow2(24 - b), k |-> k + (24 - b)]
    ELSE LET q == RoundShift(num, b - 24) IN
         IF q = Pow2(24) THEN [m |-> Pow2(23), k |-> k - (b - 24) - 1]
         ELSE [m |-> q, k |-> k - (b - 24)]

RECURSIVE QuotScale(_, _, _)
\* the least k >= from with a * 2^k / b >= 2^23
QuotScale(a, b, from) ==
    IF (a * Pow2(from)) \div b >= Pow2(23) THEN from
    ELSE QuotScale(a, b, from + 1)

\* (float)a / (float)b for integers 0 <= a <= b <= 255
F32Div(a, b) ==
    IF a = 0 THEN [m |-> 0, k |-> 0]
    ELSE LET k == QuotScale(a, b, 0)
             q == (a * Pow2(k)) \div b
             r == (a * Pow2(k)) % b
         IN IF 2 * r > b \/ (2 * r = b /\ q % 2 = 1)
            THEN F32(q + 1, k) ELSE [m |-> q, k |-> k]

\* 1.0f - t for a float 0 <= t <= 1
F32OneMinus(t) ==
    IF t.m = 0 THEN [m |-> Pow2(23), k |-> 23]
    ELSE F32(Pow2(t.k) - t.m, t.k)

\* c * t for an integer 1 <= c <= 255 and a float t; the 32-bit product is
\* formed from the two 12-bit halves of t.m
F32Mul(c, t) ==
    IF t.m = 0 THEN t
    ELSE LET lo == c * (t.m % 4096)
             hi == c * (t.m \div 4096) + (lo \div 4096)
             rest == lo % 4096
             s == BitLen(hi) - 12
         IN IF s <= 0 THEN F32(hi * 4096 + rest, t.k)
            ELSE LET q == hi * Pow2(12 - s) + (rest \div Pow2(s))
                     r == rest % Pow2(s)
                     h == Pow2(s - 1)
                     up == r > h \/ (r = h /\ q % 2 = 1)
                 IN IF up /\ q + 1 = Pow2(24)
                    THEN [m |-> Pow2(23), k |-> t.k - s - 1]
                    ELSE [m |-> IF up THEN q + 1 ELSE q, k |-> t.k - s]

\* (uint8_t)x for a float 0 <= x < 256
F32ToU8(x) == IF x.m = 0 THEN 0 ELSE x.m \div Pow2(x.k)

-----------------------------------------------------------------------------
(* State *)

VARIABLES
    pc,                 \* "boot" before setup(), "run" afterwards
    clock,              \* milliseconds since power-up (unwrapped)
    now,                \* millis() at the latest loop() invocation
    lastUpdateMs,       \* main.cpp
    motorMode,          \* main.cpp
    modeStartMs,        \* main.cpp
    lastSpeedPct,       \* main.cpp
    errorState,         \* main.cpp
    lastReadMs,         \* UltraSonic
    lastDistance,       \* UltraSonic
    lastCommandPercent, \* Motor
    in1,                \* duty on L293D IN1 (0 = LOW)
    in2,                \* duty on L293D IN2 (0 = LOW)
    processed,          \* the latest loop() invocation ran a tick
    distance,           \* loop(): reading of the latest tick
    pulsed,             \* the latest tick emitted a trigger pulse
    startMode,          \* motorMode at the start of the latest tick
    stageSince,         \* clock at which the current maneuver stage began
    scen,               \* observer: ticks of the round-trip scenario matched
    scenT0,             \* observer: clock of the scenario's first tick
    scenSpeeds,         \* observer: speeds resolved along the scenario
    scenModes,          \* observer: modes after each tick of the scenario
    qd,                 \* speed mapping explored alone: reading
    qspeed,             \* speed mapping explored alone: resolved speed
    qprevd,             \* speed mapping explored alone: previous reading
    qprevspeed,         \* speed mapping explored alone: previous speed
    qmode,              \* mode resolution explored alone: mode before the tick
    qage,               \* mode resolution explored alone: age of that mode
    qnext,              \* mode resolution explored alone: mode after the tick
    qstart,             \* mode resolution explored alone: modeStartMs before
    calls,              \* calls made by the latest setup()/loop() invocation
    sRet,               \* sensor alone: value the latest readCM() returned
    sPulse,             \* sensor alone: the latest readCM() pulsed TRIG
    sPrevRet,           \* sensor alone: value the call before returned
    sPrevGap,           \* sensor alone: ms between the latest two calls
    sTrigAge,           \* sensor alone: ms from the last pulse before the
                        \* latest call (boot if none) to that call
    sCalls,             \* sensor alone: readCM() calls so far, up to 2
    sTrigs,             \* sensor alone: trigger pulses so far, up to 2
    sDur,               \* sensor alone: echo width of the latest pulse
    sPrior,             \* sensor alone: reading cached before that pulse
    ePc,                \* conversion alone: "idle", "in", "fresh", "cached"
    mCall,              \* motor alone: latest call ("none" before begin())
    mArg,               \* motor alone: argument of the latest setSpeed()
    mWasDriven,         \* motor alone: a line carried duty before that call
    mSkipped,           \* motor alone: that call returned at the redundant-
                        \* command check
    refIn1,             \* motor alone: IN1 of an actuator that always writes
    refIn2,             \* motor alone: IN2 of an actuator that always writes
    mMid,               \* motor alone: the two lines between the first and
                        \* the second pin write of the latest call
    dm,                 \* duty mapping alone: magnitude
    dduty,              \* duty mapping alone: duty
    dprevm,             \* duty mapping alone: previous magnitude
    dprevduty,          \* duty mapping alone: previous duty
    statusLed,          \* StatusLED: its members and the duties on its pins
    lCall,              \* LED alone: latest call ("none", "setError",
                        \* "update")
    lArg,               \* LED alone: argument of the latest call
    lPrevCmd,           \* LED alone: clamped command of the latest update()
                        \* made in normal mode (0 before any)
    lEntryAge,          \* LED alone: ms since error mode was entered, up to
                        \* ERROR_BLINK_MS (-1 outside error mode)
    lEntryToggles,      \* LED alone: toggles of the error channel since
                        \* error mode was entered, up to 2
    lMarkAge,           \* LED alone: ms since the update() under watch
                        \* (-1 when none is)
    lMarkToggles        \* LED alone: toggles of the error channel since the
                        \* update() under watch, up to 2

loopVars == <<lastUpdateMs, motorMode, modeStartMs, lastSpeedPct, errorState>>
sonicVars == <<lastReadMs, lastDistance>>
motorVars == <<lastCommandPercent, in1, in2>>
scenVars == <<scen, scenT0, scenSpeeds, scenModes>>
mapVars == <<qd, qspeed, qprevd, qprevspeed, qmode, qage, qnext,
            qstart>>
sonicObs == <<sRet, sPulse, sPrevRet, sPrevGap, sTrigAge, sCalls, sTrigs,
              sDur, sPrior, ePc>>
motorObs == <<mCall, mArg, mWasDriven, mSkipped, refIn1, refIn2, mMid>>
dutyVars == <<dm, dduty, dprevm, dprevduty>>
ledObs == <<lCall, lArg, lPrevCmd, lEntryAge, lEntryToggles, lMarkAge,
            lMarkToggles>>
ledVars == <<statusLed, ledObs>>

vars == <<pc, clock, now, loopVars, sonicVars, motorVars,
          processed, distance, pulsed, startMode, stageSince,
          scenVars, mapVars, calls, sonicObs, motorObs, dutyVars, ledVars>>

-----------------------------------------------------------------------------
(* UltraSonic::readCM, called at millis() = n with echo width dur *)

\* readCM() with the fresh branch written once, for the variants below
ReadFresh(n, dur, lo, hi, keep) ==
    LET dist == dur \div 58 IN
    IF dur = 0 \/ dist < lo \/ dist > hi
    THEN [ret |-> 0, lastReadMs |-> n, lastDistance |-> keep, pulse |-> TRUE]
    ELSE [ret |-> dist, lastReadMs |-> n, lastDistance |-> dist,
          pulse |-> TRUE]

\* readCM() rate-limited by the loop period instead of MIN_INTERVAL_MS
ReadCM_ShortWindow(n, lrm, ld, dur) ==
    IF Less32(Sub32(n, lrm), UPDATE_INTERVAL_MS)
    THEN [ret |-> ld, lastReadMs |-> lrm, lastDistance |-> ld, pulse |-> FALSE]
    ELSE ReadFresh(n, dur, 2, 400, 0)

\* readCM() recording the trigger time only after a valid measurement
ReadCM_StampValidOnly(n, lrm, ld, dur) ==
    IF Less32(Sub32(n, lrm), MIN_INTERVAL_MS)
    THEN [ret |-> ld, lastReadMs |-> lrm, lastDistance |-> ld, pulse |-> FALSE]
    ELSE LET f == ReadFresh(n, dur, 2, 400, 0) IN
         [f EXCEPT !.lastReadMs = IF f.ret = 0 THEN lrm ELSE n]

\* readCM() rejecting the lower edge of the valid range (dist <= 2)
ReadCM_RangeOffByOne(n, lrm, ld, dur) ==
    IF Less32(Sub32(n, lrm), MIN_INTERVAL_MS)
    THEN [ret |-> ld, lastReadMs |-> lrm, lastDistance |-> ld, pulse |-> FALSE]
    ELSE ReadFresh(n, dur, 3, 400, 0)

\* readCM() returning 0 for an invalid measurement but keeping the cache
ReadCM_KeepsCacheOnInvalid(n, lrm, ld, dur) ==
    IF Less32(Sub32(n, lrm), MIN_INTERVAL_MS)
    THEN [ret |-> ld, lastReadMs |-> lrm, lastDistance |-> ld, pulse |-> FALSE]
    ELSE ReadFresh(n, dur, 2, 400, ld)

\* readCM() recording the time of every call, rate-limited ones included
ReadCM_StampEveryCall(n, lrm, ld, dur) ==
    IF Less32(Sub32(n, lrm), MIN_INTERVAL_MS)
    THEN [ret |-> ld, lastReadMs |-> n, lastDistance |-> ld, pulse |-> FALSE]
    ELSE ReadFresh(n, dur, 2, 400, 0)

\* UltraSonic::readCM: value returned, members and whether TRIG was pulsed
ReadCM(n, lrm, ld, dur) ==
    IF Less32(Sub32(n, lrm), MIN_INTERVAL_MS)
    THEN [ret |-> ld, lastReadMs |-> lrm, lastDistance |-> ld, pulse |-> FALSE]
    ELSE LET dist == dur \div 58 IN
         IF dur = 0
         THEN [ret |-> 0, lastReadMs |-> n, lastDistance |-> 0, pulse |-> TRUE]
         ELSE IF dist < 2 \/ dist > 400
         THEN [ret |-> 0, lastReadMs |-> n, lastDistance |-> 0, pulse |-> TRUE]
         ELSE [ret |-> dist, lastReadMs |-> n, lastDistance |-> dist,
               pulse |-> TRUE]

-----------------------------------------------------------------------------
(* Motor *)

\* applyOutputs() writing the reverse duty to IN1 as well
ApplyOutputs_ReverseOnIn1(pwmValue, forward) ==
    IF pwmValue <= 0 THEN [in1 |-> 0, in2 |-> 0]
    ELSE [in1 |-> pwmValue, in2 |-> 0]

\* Motor::applyOutputs: the duties left on IN1 and IN2
ApplyOutputs(pwmValue, forward) ==
    IF pwmValue <= 0 THEN [in1 |-> 0, in2 |-> 0]
    ELSE IF forward THEN [in1 |-> pwmValue, in2 |-> 0]
    ELSE [in1 |-> 0, in2 |-> pwmValue]

\* Motor::applyOutputs on a motor in state m: the lines after the first of
\* its two pin writes (IN1 is written first in every branch)
FirstWrite(m, pwmValue, forward) ==
    IF pwmValue <= 0 THEN [in1 |-> 0, in2 |-> m.in2]
    ELSE IF forward THEN [in1 |-> pwmValue, in2 |-> m.in2]
    ELSE [in1 |-> 0, in2 |-> m.in2]

\* Motor::stop
MotorStop == [lastCommandPercent |-> 0, in1 |-> 0, in2 |-> 0]

\* brake() leaving lastCommandPercent as it was
MotorBrake_KeepsCommand(m) == [m EXCEPT !.in1 = 0, !.in2 = 0]

\* Motor::brake on a motor in state m
MotorBrake(m) == [m EXCEPT !.lastCommandPercent = 0, !.in1 = 0, !.in2 = 0]

\* the duty mapping of setSpeed() as it was before the deadband: 0..100
Duty_FromZero(magnitude) == ArduinoMap(magnitude, 0, 100, 0, 255)

\* Motor::setSpeed: magnitude 1..100 to duty 1..255
Duty(magnitude) == ArduinoMap(magnitude, 1, 100, 1, 255)

\* the deadband test without abs(): negative percents are not coerced
Coerce_OneSided(percent) ==
    LET c == Constrain(percent, -100, 100) IN
    IF c >= 0 /\ c < DEAD_BAND_PERCENT THEN 0 ELSE c

\* Coerce with the deadband test left out
Coerce_NoDeadband(percent) == Constrain(percent, -100, 100)

\* the percent setSpeed works with after clamping and deadband
Coerce(percent) ==
    LET c == Constrain(percent, -100, 100) IN
    IF Abs(c) < DEAD_BAND_PERCENT THEN 0 ELSE c

\* Motor::setSpeed on a motor in state m: the lines after its first pin
\* write, or as they were when it returns without writing
SetSpeedMid(m, percent) ==
    LET p == Coerce(percent) IN
    IF p = m.lastCommandPercent THEN [in1 |-> m.in1, in2 |-> m.in2]
    ELSE IF p = 0 THEN FirstWrite(m, 0, TRUE)
    ELSE FirstWrite(m, Duty(Abs(p)), p > 0)

\* Motor::setSpeed on a motor in state m
SetSpeed(m, percent) ==
    LET p == Coerce(percent) IN
    IF p = m.lastCommandPercent THEN m
    ELSE IF p = 0
    THEN LET o == ApplyOutputs(0, TRUE) IN
         [lastCommandPercent |-> 0, in1 |-> o.in1, in2 |-> o.in2]
    ELSE LET o == ApplyOutputs(Duty(Abs(p)), p > 0) IN
         [lastCommandPercent |-> p, in1 |-> o.in1, in2 |-> o.in2]

-----------------------------------------------------------------------------
(* StatusLED (led.cpp v1.0.0) *)

STEP_INTERVAL_MS == 20
BLINK_HALF_PERIOD_MS == 125
ERROR_BLINK_MS == 500
MAX_BRIGHTNESS == 255
DIM_BRIGHTNESS == 60
COLOR_TRANSITION_THRESHOLD == 50

\* the member initialisers of StatusLED; the pins are low before begin()
LedInit ==
    [currentPercent |-> 0, targetPercent |-> 0, lastCommand |-> 0,
     blinkingToZero |-> FALSE, lastBlinkState |-> FALSE,
     errorActive |-> FALSE, errorBlinkOn |-> FALSE,
     lastStepMs |-> Zero32, lastBlinkMs |-> Zero32,
     lastErrorBlinkMs |-> Zero32,
     pinR |-> 0, pinG |-> 0, pinB |-> 0]

\* StatusLED::setRGB
SetRGB(l, r, g, b) == [l EXCEPT !.pinR = r, !.pinG = g, !.pinB = b]

\* StatusLED::begin
LedBegin(l) == SetRGB(l, 0, 0, 0)

\* setError() that does not reset the blink phase and timer on entry
LedSetError_NoReset(l, n, active) == [l EXCEPT !.errorActive = active]

\* StatusLED::setError called at millis() = n
LedSetError(l, n, active) ==
    IF active /\ ~l.errorActive
    THEN [l EXCEPT !.lastErrorBlinkMs = n, !.errorBlinkOn = FALSE,
                   !.errorActive = active]
    ELSE [l EXCEPT !.errorActive = active]

\* the error branch toggling only after more than ERROR_BLINK_MS
ErrorBlink_StrictPeriod(l, n) ==
    LET t == IF ~Less32(Sub32(n, l.lastErrorBlinkMs), ERROR_BLINK_MS + 1)
             THEN [l EXCEPT !.lastErrorBlinkMs = n,
                            !.errorBlinkOn = ~l.errorBlinkOn]
             ELSE l
    IN SetRGB(t, 0, 0, IF t.errorBlinkOn THEN MAX_BRIGHTNESS ELSE 0)

\* update(): the error branch
ErrorBlink(l, n) ==
    LET t == IF ~Less32(Sub32(n, l.lastErrorBlinkMs), ERROR_BLINK_MS)
             THEN [l EXCEPT !.lastErrorBlinkMs = n,
                            !.errorBlinkOn = ~l.errorBlinkOn]
             ELSE l
    IN SetRGB(t, 0, 0, IF t.errorBlinkOn THEN MAX_BRIGHTNESS ELSE 0)

\* Track marking every change to 0 for blinking
Track_BlinkOnAnyZero(l, commandedPercent) ==
    LET c == Constrain(commandedPercent, 0, 100) IN
    IF c # l.targetPercent
    THEN [l EXCEPT !.blinkingToZero = c = 0,
                   !.targetPercent = c,
                   !.lastCommand = c]
    ELSE l

\* Track never clearing the 50 -> 0 mark once it is set
Track_StickyMark(l, commandedPercent) ==
    LET c == Constrain(commandedPercent, 0, 100) IN
    IF c # l.targetPercent
    THEN [l EXCEPT !.blinkingToZero = l.blinkingToZero
                                      \/ (l.lastCommand = 50 /\ c = 0),
                   !.targetPercent = c,
                   !.lastCommand = c]
    ELSE l

\* update(): clamp of the command and transition detection
Track(l, commandedPercent) ==
    LET c == Constrain(commandedPercent, 0, 100) IN
    IF c # l.targetPercent
    THEN [l EXCEPT !.blinkingToZero = IF l.lastCommand = 50 /\ c = 0
                                      THEN TRUE ELSE FALSE,
                   !.targetPercent = c,
                   !.lastCommand = c]
    ELSE l

\* Ramp that only ever steps down
Ramp_OnlyDown(l, n) ==
    IF ~Less32(Sub32(n, l.lastStepMs), STEP_INTERVAL_MS)
    THEN [l EXCEPT !.lastStepMs = n,
                   !.currentPercent =
                       IF l.currentPercent > l.targetPercent
                       THEN l.currentPercent - 1
                       ELSE l.currentPercent]
    ELSE l

\* Ramp stepping at every update, whatever time has passed
Ramp_EveryUpdate(l, n) ==
    [l EXCEPT !.lastStepMs = n,
              !.currentPercent =
                  IF l.currentPercent < l.targetPercent
                  THEN l.currentPercent + 1
                  ELSE IF l.currentPercent > l.targetPercent
                  THEN l.currentPercent - 1
                  ELSE l.currentPercent]

\* update(): one step of currentPercent toward targetPercent
Ramp(l, n) ==
    IF ~Less32(Sub32(n, l.lastStepMs), STEP_INTERVAL_MS)
    THEN [l EXCEPT !.lastStepMs = n,
                   !.currentPercent =
                       IF l.currentPercent < l.targetPercent
                       THEN l.currentPercent + 1
                       ELSE IF l.currentPercent > l.targetPercent
                       THEN l.currentPercent - 1
                       ELSE l.currentPercent]
    ELSE l

\* the gradient with the two channels exchanged
Gradient_Swapped(cp) ==
    IF cp <= COLOR_TRANSITION_THRESHOLD
    THEN [r |-> F32ToU8(F32Mul(MAX_BRIGHTNESS,
                               F32Div(cp, COLOR_TRANSITION_THRESHOLD))),
          g |-> MAX_BRIGHTNESS]
    ELSE [r |-> MAX_BRIGHTNESS,
          g |-> F32ToU8(F32Mul(MAX_BRIGHTNESS,
                  F32OneMinus(F32Div(cp - COLOR_TRANSITION_THRESHOLD,
                                     COLOR_TRANSITION_THRESHOLD))))]

\* update(): currentPercent to the red and green intensities
Gradient(cp) ==
    IF cp <= COLOR_TRANSITION_THRESHOLD
    THEN [r |-> MAX_BRIGHTNESS,
          g |-> F32ToU8(F32Mul(MAX_BRIGHTNESS,
                               F32Div(cp, COLOR_TRANSITION_THRESHOLD)))]
    ELSE [r |-> F32ToU8(F32Mul(MAX_BRIGHTNESS,
                  F32OneMinus(F32Div(cp - COLOR_TRANSITION_THRESHOLD,
                                     COLOR_TRANSITION_THRESHOLD)))),
          g |-> MAX_BRIGHTNESS]

\* Gradient over the range of currentPercent, computed once
GradientOf == [cp \in 0..MAX_PERCENT |-> Gradient(cp)]

\* the overlay with one guard and one colour source, for the variants below
OverlayWith(l, n, active, c) ==
    IF active
    THEN LET t == IF ~Less32(Sub32(n, l.lastBlinkMs), BLINK_HALF_PERIOD_MS)
                  THEN [l EXCEPT !.lastBlinkMs = n,
                                 !.lastBlinkState = ~l.lastBlinkState]
                  ELSE l
             scale == IF t.lastBlinkState THEN MAX_BRIGHTNESS
                      ELSE DIM_BRIGHTNESS
         IN SetRGB(t, (c.r * scale) \div MAX_BRIGHTNESS,
                      (c.g * scale) \div MAX_BRIGHTNESS, 0)
    ELSE SetRGB(l, c.r, c.g, 0)

\* the overlay applied at currentPercent = 0 as well
Overlay_AtZero(l, n) ==
    OverlayWith(l, n, l.blinkingToZero, GradientOf[l.currentPercent])

\* update(): gradient, blink overlay of a 50 -> 0 transition, and setRGB
Overlay(l, n) ==
    LET c == GradientOf[l.currentPercent] IN
    IF l.blinkingToZero /\ l.currentPercent > 0
    THEN LET t == IF ~Less32(Sub32(n, l.lastBlinkMs), BLINK_HALF_PERIOD_MS)
                  THEN [l EXCEPT !.lastBlinkMs = n,
                                 !.lastBlinkState = ~l.lastBlinkState]
                  ELSE l
             scale == IF t.lastBlinkState THEN MAX_BRIGHTNESS
                      ELSE DIM_BRIGHTNESS
         IN SetRGB(t, (c.r * scale) \div MAX_BRIGHTNESS,
                      (c.g * scale) \div MAX_BRIGHTNESS, 0)
    ELSE SetRGB(l, c.r, c.g, 0)

\* update() running the normal branch while error mode is active
LedUpdate_ErrorTracksCommand(l, n, commandedPercent) ==
    IF l.errorActive
    THEN ErrorBlink(Ramp(Track(l, commandedPercent), n), n)
    ELSE Overlay(Ramp(Track(l, commandedPercent), n), n)

\* StatusLED::update called at millis() = n
LedUpdate(l, n, commandedPercent) ==
    IF l.errorActive
    THEN ErrorBlink(l, n)
    ELSE Overlay(Ramp(Track(l, commandedPercent), n), n)

-----------------------------------------------------------------------------
(* loop(): the maneuver state machine *)

\* NearSpeed with the two overrides applied in the opposite order
NearSpeed_OverridesSwapped(d) ==
    LET mapped == ArduinoMap(d, MIN_DIST_CM, MAX_DIST_CM, 0, 100)
        quant == CDiv(mapped, 2) * 2
        clamped == Constrain(quant, 0, 100)
        free == IF d = 0 THEN 100 ELSE clamped
    IN IF d <= MIN_DIST_CM THEN 0 ELSE free

\* NearSpeed without the quantization to even values
NearSpeed_NoQuantize(d) ==
    LET mapped == ArduinoMap(d, MIN_DIST_CM, MAX_DIST_CM, 0, 100)
        clamped == Constrain(mapped, 0, 100)
        close == IF d <= MIN_DIST_CM THEN 0 ELSE clamped
    IN IF d = 0 THEN 100 ELSE close

\* near regime: dynamic mapping, quantization and the two overrides
NearSpeed(d) ==
    LET mapped == ArduinoMap(d, MIN_DIST_CM, MAX_DIST_CM, 0, 100)
        quant == CDiv(mapped, 2) * 2
        clamped == Constrain(quant, 0, 100)
        close == IF d <= MIN_DIST_CM THEN 0 ELSE clamped
    IN IF d = 0 THEN 100 ELSE close

\* the far-regime switch with one case replaced
ResolveWith(mode, mstart, n, d, case, alt) ==
    LET far ==
          CASE mode = "NORMAL" ->
                [mode |-> "STOPPING", modeStartMs |-> n, speedPct |-> 0]
            [] mode = "STOPPING" ->
                IF ~Less32(Sub32(n, mstart), STOP_TIME_MS)
                THEN [mode |-> "REVERSING", modeStartMs |-> n, speedPct |-> 0]
                ELSE [mode |-> mode, modeStartMs |-> mstart, speedPct |-> 0]
            [] mode = "REVERSING" ->
                IF ~Less32(Sub32(n, mstart), REVERSE_TIME_MS)
                THEN [mode |-> "SLOW_FORWARD", modeStartMs |-> n,
                      speedPct |-> -20]
                ELSE [mode |-> mode, modeStartMs |-> mstart, speedPct |-> -20]
            [] mode = "SLOW_FORWARD" ->
                [mode |-> mode, modeStartMs |-> mstart, speedPct |-> 20]
    IN  IF d >= MAX_DIST_CM
        THEN IF mode = case THEN alt ELSE far
        ELSE [mode |-> "NORMAL", modeStartMs |-> n, speedPct |-> NearSpeed(d)]

\* Resolve commanding the speed of the stage a dwell expiry switches to
Resolve_SpeedOfNewMode(mode, mstart, n, d) ==
    IF d >= MAX_DIST_CM /\ mode = "STOPPING"
       /\ ~Less32(Sub32(n, mstart), STOP_TIME_MS)
    THEN [mode |-> "REVERSING", modeStartMs |-> n, speedPct |-> -20]
    ELSE IF d >= MAX_DIST_CM /\ mode = "REVERSING"
            /\ ~Less32(Sub32(n, mstart), REVERSE_TIME_MS)
    THEN [mode |-> "SLOW_FORWARD", modeStartMs |-> n, speedPct |-> 20]
    ELSE ResolveWith(mode, mstart, n, d, "none", <<>>)

\* Resolve with the stop dwell compared against the reverse dwell's length
Resolve_ShortStop(mode, mstart, n, d) ==
    ResolveWith(mode, mstart, n, d, "STOPPING",
        IF ~Less32(Sub32(n, mstart), REVERSE_TIME_MS)
        THEN [mode |-> "REVERSING", modeStartMs |-> n, speedPct |-> 0]
        ELSE [mode |-> mode, modeStartMs |-> mstart, speedPct |-> 0])

\* Resolve leaving REVERSING without resetting the entry time
Resolve_ReverseNoReset(mode, mstart, n, d) ==
    ResolveWith(mode, mstart, n, d, "REVERSING",
        IF ~Less32(Sub32(n, mstart), REVERSE_TIME_MS)
        THEN [mode |-> "SLOW_FORWARD", modeStartMs |-> mstart,
              speedPct |-> -20]
        ELSE [mode |-> mode, modeStartMs |-> mstart, speedPct |-> -20])

\* Resolve entering STOPPING without recording the entry time
Resolve_StopNoTimestamp(mode, mstart, n, d) ==
    ResolveWith(mode, mstart, n, d, "NORMAL",
        [mode |-> "STOPPING", modeStartMs |-> mstart, speedPct |-> 0])

\* Resolve with the SLOW_FORWARD exit test inverted
Resolve_CreepExits(mode, mstart, n, d) ==
    ResolveWith(mode, mstart, n, d, "SLOW_FORWARD",
        IF d >= MAX_DIST_CM
        THEN [mode |-> "NORMAL", modeStartMs |-> mstart, speedPct |-> 20]
        ELSE [mode |-> mode, modeStartMs |-> mstart, speedPct |-> 20])

\* Resolve whose near regime leaves a running stop dwell alone
Resolve_NearKeepsStopping(mode, mstart, n, d) ==
    IF d < MAX_DIST_CM /\ mode = "STOPPING"
    THEN [mode |-> mode, modeStartMs |-> mstart, speedPct |-> NearSpeed(d)]
    ELSE ResolveWith(mode, mstart, n, d, "none", <<>>)

\* Resolve moving on by as many stages as the elapsed time covers
Resolve_SkipsStage(mode, mstart, n, d) ==
    ResolveWith(mode, mstart, n, d, "STOPPING",
        IF ~Less32(Sub32(n, mstart), STOP_TIME_MS + REVERSE_TIME_MS)
        THEN [mode |-> "SLOW_FORWARD", modeStartMs |-> n, speedPct |-> 0]
        ELSE IF ~Less32(Sub32(n, mstart), STOP_TIME_MS)
        THEN [mode |-> "REVERSING", modeStartMs |-> n, speedPct |-> 0]
        ELSE [mode |-> mode, modeStartMs |-> mstart, speedPct |-> 0])

\* mode, entry time and speed resolved by a tick at millis() = n reading d
Resolve(mode, mstart, n, d) ==
    IF d >= MAX_DIST_CM
    THEN CASE mode = "NORMAL" ->
                [mode |-> "STOPPING", modeStartMs |-> n, speedPct |-> 0]
           [] mode = "STOPPING" ->
                IF ~Less32(Sub32(n, mstart), STOP_TIME_MS)
                THEN [mode |-> "REVERSING", modeStartMs |-> n, speedPct |-> 0]
                ELSE [mode |-> mode, modeStartMs |-> mstart, speedPct |-> 0]
           [] mode = "REVERSING" ->
                IF ~Less32(Sub32(n, mstart), REVERSE_TIME_MS)
                THEN [mode |-> "SLOW_FORWARD", modeStartMs |-> n,
                      speedPct |-> -20]
                ELSE [mode |-> mode, modeStartMs |-> mstart, speedPct |-> -20]
           [] mode = "SLOW_FORWARD" ->
                IF d < MAX_DIST_CM
                THEN [mode |-> "NORMAL", modeStartMs |-> mstart,
                      speedPct |-> 20]
                ELSE [mode |-> mode, modeStartMs |-> mstart, speedPct |-> 20]
    ELSE [mode |-> "NORMAL", modeStartMs |-> n, speedPct |-> NearSpeed(d)]


-----------------------------------------------------------------------------
(* Observer of the round-trip scenario: five consecutive ticks reading     *)
(* 70, 70, 70 (500 ms after the first), 70 (700 ms after the first), 40,   *)
(* the first of them starting in NORMAL.                                   *)

ScenStart(oldMode, d, c, speed, newMode) ==
    IF oldMode = "NORMAL" /\ d = 70
    THEN [scen |-> 1, t0 |-> c, speeds |-> <<speed>>, modes |-> <<newMode>>]
    ELSE [scen |-> 0, t0 |-> 0, speeds |-> <<>>, modes |-> <<>>]

ScenStep(oldMode, d, c, speed, newMode) ==
    LET go == [scen |-> scen + 1, t0 |-> scenT0,
               speeds |-> Append(scenSpeeds, speed),
               modes |-> Append(scenModes, newMode)]
    IN  IF \/ scen = 1 /\ d = 70 /\ c - scenT0 < 500
           \/ scen = 2 /\ d = 70 /\ c - scenT0 = 500
           \/ scen = 3 /\ d = 70 /\ c - scenT0 = 700
           \/ scen = 4 /\ d = 40
        THEN go
        ELSE ScenStart(oldMode, d, c, speed, newMode)

-----------------------------------------------------------------------------
(* Initial state: the globals and member initialisers, before setup() *)

\* everything but the clock and the sensor's cache
InitRest ==
    /\ pc = "boot"
    /\ lastUpdateMs = Zero32
    /\ motorMode = "NORMAL"
    /\ modeStartMs = Zero32
    /\ lastSpeedPct = 100
    /\ errorState = FALSE
    /\ lastCommandPercent = 0
    /\ in1 = 0
    /\ in2 = 0
    /\ processed = FALSE
    /\ distance = 0
    /\ pulsed = FALSE
    /\ startMode = "NORMAL"
    /\ stageSince = 0
    /\ scen = 0
    /\ scenT0 = 0
    /\ scenSpeeds = <<>>
    /\ scenModes = <<>>
    /\ qd = 0
    /\ qspeed = 100
    /\ qprevd = 0
    /\ qprevspeed = 100
    /\ qmode = "NORMAL"
    /\ qage = Zero32
    /\ qnext = "NORMAL"
    /\ qstart = Zero32
    /\ calls = <<>>
    /\ sPulse = FALSE
    /\ sPrevRet = 0
    /\ sPrevGap = 0
    /\ sTrigAge = 0
    /\ sCalls = 0
    /\ sTrigs = 0
    /\ mCall = "none"
    /\ mArg = 0
    /\ mWasDriven = FALSE
    /\ mSkipped = FALSE
    /\ refIn1 = 0
    /\ refIn2 = 0
    /\ mMid = [in1 |-> 0, in2 |-> 0]
    /\ dm = 1
    /\ dduty = 1
    /\ dprevm = 1
    /\ dprevduty = 1
    /\ statusLed = LedInit
    /\ lCall = "none"
    /\ lArg = 0
    /\ lPrevCmd = 0
    /\ lEntryAge = -1
    /\ lEntryToggles = 0
    /\ lMarkAge = -1
    /\ lMarkToggles = 0

Init ==
    /\ InitRest
    /\ clock = 0
    /\ now = Zero32
    /\ lastReadMs = Zero32
    /\ lastDistance = 0
    /\ sRet = 0
    /\ sDur = 0
    /\ sPrior = 0
    /\ ePc = "idle"

\* setup(): motor.begin(), motor.setSpeed(100), lastUpdateMs = millis()
Setup ==
    /\ pc = "boot"
    /\ pc' = "run"
    /\ LET m == SetSpeed(MotorStop, 100) IN
        /\ lastCommandPercent' = m.lastCommandPercent
        /\ in1' = m.in1
        /\ in2' = m.in2
    /\ lastSpeedPct' = 100
    /\ statusLed' = LedUpdate(LedBegin(statusLed), now, 100)
    /\ lastUpdateMs' = now
    /\ calls' = << <<"motor.begin">>, <<"usonic.begin">>,
                  <<"statusLed.begin">>, <<"display.begin">>,
                  <<"motor.setSpeed", 100>>, <<"statusLed.update", 100>>,
                  <<"display.update", 0, 100, FALSE>> >>
    /\ UNCHANGED <<clock, now, motorMode, modeStartMs, errorState, sonicVars,
                   processed, distance, pulsed, startMode, stageSince,
                   scenVars, mapVars, sonicObs, motorObs, dutyVars, ledObs>>

\* loop() recording the invocation time before the period test
LoopEarly_StampsTime(dt) ==
    /\ pc = "run"
    /\ clock + dt <= MaxTime
    /\ LET n == Add32(now, dt) IN
        /\ Less32(Sub32(n, lastUpdateMs), UPDATE_INTERVAL_MS)
        /\ now' = n
        /\ lastUpdateMs' = n
    /\ clock' = clock + dt
    /\ processed' = FALSE
    /\ calls' = <<>>
    /\ UNCHANGED <<pc, motorMode, modeStartMs, lastSpeedPct, errorState,
                   sonicVars, motorVars, distance, pulsed,
                   startMode, stageSince, scenVars, mapVars, sonicObs,
                   motorObs, dutyVars, ledVars>>

\* loop() invoked dt ms after the previous invocation, before the period is up
LoopEarly(dt) ==
    /\ pc = "run"
    /\ clock + dt <= MaxTime
    /\ LET n == Add32(now, dt) IN
        /\ Less32(Sub32(n, lastUpdateMs), UPDATE_INTERVAL_MS)
        /\ now' = n
    /\ clock' = clock + dt
    /\ processed' = FALSE
    /\ calls' = <<>>
    /\ UNCHANGED <<pc, loopVars, sonicVars, motorVars, distance, pulsed,
                   startMode, stageSince, scenVars, mapVars, sonicObs,
                   motorObs, dutyVars, ledVars>>

\* The presenter (display.update) feeds nothing back into the loop; what it
\* is handed is recorded in calls.
\*
\* loop() invoked dt ms after the previous invocation, a processed tick, as
\* far as the loop's globals, the sensor, the motor and the calls made;
\* dur is the echo width pulseIn() reports when this tick triggers the sensor
\* (pulseIn() is not called, and dur is 0, when readCM() is rate-limited)
LoopCore(dt, dur) ==
    /\ pc = "run"
    /\ clock + dt <= MaxTime
    /\ Less32(Sub32(Add32(now, dt), lastReadMs), MIN_INTERVAL_MS) => dur = 0
    /\ \E n \in {Add32(now, dt)} :
        /\ ~Less32(Sub32(n, lastUpdateMs), UPDATE_INTERVAL_MS)
        /\ now' = n
        /\ lastUpdateMs' = n
        /\ \E r \in {ReadCM(n, lastReadMs, lastDistance, dur)} :
            /\ lastReadMs' = r.lastReadMs
            /\ lastDistance' = r.lastDistance
            /\ pulsed' = r.pulse
            /\ distance' = r.ret
            /\ \E res \in {Resolve(motorMode, modeStartMs, n, r.ret)} :
                /\ motorMode' = res.mode
                /\ modeStartMs' = res.modeStartMs
                /\ lastSpeedPct' = res.speedPct
                /\ errorState' = FALSE
                /\ stageSince' = IF res.mode # motorMode \/ res.mode = "NORMAL"
                                 THEN clock + dt ELSE stageSince
                /\ \E m \in {SetSpeed([lastCommandPercent |->
                                          lastCommandPercent,
                                       in1 |-> in1, in2 |-> in2],
                                      res.speedPct)} :
                    /\ lastCommandPercent' = m.lastCommandPercent
                    /\ in1' = m.in1
                    /\ in2' = m.in2
                /\ calls' = << <<"usonic.readCM">>,
                              <<"motor.setSpeed", res.speedPct>>,
                              <<"statusLed.setError", FALSE>>,
                              <<"statusLed.update", res.speedPct>>,
                              <<"display.update", r.ret, res.speedPct,
                                FALSE>> >>
                /\ \E o \in {ScenStep(motorMode, r.ret, clock + dt,
                                      res.speedPct, res.mode)} :
                    /\ scen' = o.scen
                    /\ scenT0' = o.t0
                    /\ scenSpeeds' = o.speeds
                    /\ scenModes' = o.modes
    /\ clock' = clock + dt
    /\ processed' = TRUE
    /\ startMode' = motorMode
    /\ UNCHANGED <<pc, mapVars, sonicObs, motorObs, dutyVars, ledObs>>

\* loop() handing the indicator the error flag and speed of the tick before
LoopTick_IndicatesStaleSpeed(dt, dur) ==
    /\ LoopCore(dt, dur)
    /\ statusLed' = LedUpdate(LedSetError(statusLed, now', errorState),
                              now', lastSpeedPct)

\* loop() raising the error flag for the indicator when a pulse got no valid
\* echo
LoopTick_ErrorOnInvalid(dt, dur) ==
    /\ LoopCore(dt, dur)
    /\ statusLed' = LedUpdate(LedSetError(statusLed, now',
                                          pulsed' /\ distance' = 0),
                              now', lastSpeedPct')

\* loop(), a processed tick: LoopCore and the two calls to the indicator
LoopTick(dt, dur) ==
    /\ LoopCore(dt, dur)
    /\ statusLed' = LedUpdate(LedSetError(statusLed, now', errorState'),
                              now', lastSpeedPct')

\* The indicator reads errorState and lastSpeedPct and writes only its own
\* members and pins, so the loop's globals, the sensor and the motor evolve
\* under LoopCore exactly as under LoopTick.  The long runs below follow
\* them with the indicator left as setup() put it; the runs of NextSched
\* follow the whole tick.
LoopTickUnlit(dt, dur) == LoopCore(dt, dur) /\ UNCHANGED statusLed

Next ==
    \/ Setup
    \/ \E dt \in Deltas : LoopEarly(dt)
    \/ \E dt \in Deltas, dur \in EchoUs : LoopTickUnlit(dt, dur)

Spec == Init /\ [][Next]_vars

\* the same program with loop() invoked off the 10 ms grid, over a shorter run
NextSched ==
    \/ Setup
    \/ \E dt \in SchedDeltas : clock + dt <= MaxSchedTime /\ LoopEarly(dt)
    \/ \E dt \in SchedDeltas, dur \in EchoUs :
            clock + dt <= MaxSchedTime /\ LoopTick(dt, dur)

SpecSched == Init /\ [][NextSched]_vars

-----------------------------------------------------------------------------
(* The loop with an open path from FarBy on.  The Arduino core calls       *)
(* setup() once and then loop() for ever while millis() advances, so       *)
(* setup() runs and ticks keep being processed: weak fairness on both.     *)

\* a processed tick; from FarBy on its reading is 60 cm or more
FarTick(dt, dur) ==
    /\ LoopTickUnlit(dt, dur)
    /\ clock' >= FarBy => distance' >= MAX_DIST_CM

FarTicks == \E dt \in FarDeltas, dur \in EchoUs : FarTick(dt, dur)

NextFar ==
    \/ Setup
    \/ \E dt \in FarDeltas : LoopEarly(dt)
    \/ FarTicks

SpecFar == Init /\ [][NextFar]_vars /\ WF_vars(Setup) /\ WF_vars(FarTicks)

-----------------------------------------------------------------------------
(* The loop followed across the wrap of millis(): the run starts at a tick *)
(* processed WrapLead ms before the counter returns to 0, in NORMAL, with  *)
(* a pulse that measured 40 cm and the indicator settled on the speed of   *)
(* 40 cm; clock counts the ms since that tick.                             *)

InitWrap ==
    /\ pc = "run"
    /\ clock = 0
    /\ now = WrapStart
    /\ lastUpdateMs = WrapStart
    /\ motorMode = "NORMAL"
    /\ modeStartMs = WrapStart
    /\ lastSpeedPct = NearSpeed(40)
    /\ errorState = FALSE
    /\ lastReadMs = WrapStart
    /\ lastDistance = 40
    /\ lastCommandPercent = Coerce(NearSpeed(40))
    /\ in1 = Duty(NearSpeed(40))
    /\ in2 = 0
    /\ processed = TRUE
    /\ distance = 40
    /\ pulsed = TRUE
    /\ startMode = "NORMAL"
    /\ stageSince = 0
    /\ calls = << <<"usonic.readCM">>,
                 <<"motor.setSpeed", NearSpeed(40)>>,
                 <<"statusLed.setError", FALSE>>,
                 <<"statusLed.update", NearSpeed(40)>>,
                 <<"display.update", 40, NearSpeed(40), FALSE>> >>
    /\ statusLed =
         SetRGB([LedInit EXCEPT !.currentPercent = NearSpeed(40),
                                !.targetPercent = NearSpeed(40),
                                !.lastCommand = NearSpeed(40),
                                !.lastStepMs = WrapStart],
                GradientOf[NearSpeed(40)].r, GradientOf[NearSpeed(40)].g, 0)
    /\ scen = 0
    /\ scenT0 = 0
    /\ scenSpeeds = <<>>
    /\ scenModes = <<>>
    /\ qd = 0
    /\ qspeed = 100
    /\ qprevd = 0
    /\ qprevspeed = 100
    /\ qmode = "NORMAL"
    /\ qage = Zero32
    /\ qnext = "NORMAL"
    /\ qstart = Zero32
    /\ sRet = 0
    /\ sDur = 0
    /\ sPrior = 0
    /\ ePc = "idle"
    /\ sPulse = FALSE
    /\ sPrevRet = 0
    /\ sPrevGap = 0
    /\ sTrigAge = 0
    /\ sCalls = 0
    /\ sTrigs = 0
    /\ mCall = "none"
    /\ mArg = 0
    /\ mWasDriven = FALSE
    /\ mSkipped = FALSE
    /\ refIn1 = 0
    /\ refIn2 = 0
    /\ mMid = [in1 |-> 0, in2 |-> 0]
    /\ dm = 1
    /\ dduty = 1
    /\ dprevm = 1
    /\ dprevduty = 1
    /\ lCall = "none"
    /\ lArg = 0
    /\ lPrevCmd = 0
    /\ lEntryAge = -1
    /\ lEntryToggles = 0
    /\ lMarkAge = -1
    /\ lMarkToggles = 0

NextWrap ==
    \/ \E dt \in Deltas : LoopEarly(dt)
    \/ \E dt \in Deltas, dur \in EchoUs : LoopTickUnlit(dt, dur)

SpecWrap == InitWrap /\ [][NextWrap]_vars

-----------------------------------------------------------------------------
(* The speed resolution explored alone, over every reading 0..MaxMapCm *)

MapApply(d) ==
    /\ qprevd' = qd
    /\ qprevspeed' = qspeed
    /\ qd' = d
    /\ qspeed' = Resolve("NORMAL", Zero32, Zero32, d).speedPct
    /\ UNCHANGED <<qmode, qage, qnext, qstart>>
    /\ UNCHANGED <<pc, clock, now, loopVars, sonicVars, motorVars,
                   processed, distance, pulsed, startMode, stageSince,
                   scenVars, calls, sonicObs, motorObs, dutyVars, ledVars>>

NextMap == \E d \in 0..MaxMapCm : MapApply(d)

SpecMap == Init /\ [][NextMap]_vars

-----------------------------------------------------------------------------
(* The far/near switch explored alone: one tick from every mode, at every  *)
(* age of that mode in ResolveAges, with every reading in ResolveCm        *)

ResolveApply(mode, mstart, age, d) ==
    /\ qmode' = mode
    /\ qstart' = mstart
    /\ qage' = age
    /\ qd' = d
    /\ \E res \in {Resolve(mode, mstart, Sum32(mstart, age), d)} :
          /\ qnext' = res.mode
          /\ qspeed' = res.speedPct
    /\ UNCHANGED <<qprevd, qprevspeed>>
    /\ UNCHANGED <<pc, clock, now, loopVars, sonicVars, motorVars,
                   processed, distance, pulsed, startMode, stageSince,
                   scenVars, calls, sonicObs, motorObs, dutyVars, ledVars>>

NextResolve ==
    \E mode \in Modes, mstart \in ResolveStarts, age \in ResolveAges,
       d \in ResolveCm :
        ResolveApply(mode, mstart, age, d)

SpecResolve == Init /\ [][NextResolve]_vars


-----------------------------------------------------------------------------
(* The sensor called on its own: any sequence of readCM() calls *)

Min(a, b) == IF a < b THEN a ELSE b

\* readCM() called dt ms after the previous call (after boot for the first);
\* dur is the echo width pulseIn() reports when the call triggers the sensor
SonicCall(dt, dur) ==
    /\ ePc = "idle"
    /\ clock + dt <= MaxSonicTime
    /\ Less32(Sub32(Add32(now, dt), lastReadMs), MIN_INTERVAL_MS) => dur = 0
    /\ \E n \in {Add32(now, dt)} :
        /\ now' = n
        /\ \E r \in {ReadCM(n, lastReadMs, lastDistance, dur)} :
            /\ lastReadMs' = r.lastReadMs
            /\ lastDistance' = r.lastDistance
            /\ sRet' = r.ret
            /\ sPulse' = r.pulse
            /\ sTrigs' = IF r.pulse THEN Min(sTrigs + 1, 2) ELSE sTrigs
            /\ sDur' = IF r.pulse THEN dur ELSE sDur
            /\ sPrior' = IF r.pulse THEN lastDistance ELSE sPrior
    /\ clock' = clock + dt
    /\ sPrevRet' = sRet
    /\ sPrevGap' = dt
    /\ sTrigAge' = IF sPulse THEN dt ELSE sTrigAge + dt
    /\ sCalls' = Min(sCalls + 1, 2)
    /\ UNCHANGED <<pc, loopVars, motorVars, processed, distance, pulsed,
                   startMode, stageSince, scenVars, mapVars, calls, ePc,
                   motorObs, dutyVars, ledVars>>

NextSonic == \E dt \in SonicDeltas, dur \in SonicEchoUs : SonicCall(dt, dur)

SpecSonic == Init /\ [][NextSonic]_vars

-----------------------------------------------------------------------------
(* The echo conversion explored alone: one triggering readCM() for every   *)
(* echo width 0..MaxEchoUs, followed by one rate-limited readCM().         *)

\* the sensor 50 ms after boot, having just measured the cached reading;
\* sDur is the echo width the hardware reports at the next pulse
InitEcho ==
    /\ InitRest
    /\ clock = 50
    /\ now = <<0, 50>>
    /\ lastReadMs = <<0, 50>>
    /\ lastDistance \in EchoPriors
    /\ sRet = lastDistance
    /\ sPrior = lastDistance
    /\ sDur \in 0..MaxEchoUs
    /\ ePc = "in"

\* readCM() 50 ms after the previous pulse: triggers and converts sDur
EchoTrigger ==
    /\ ePc = "in"
    /\ ePc' = "fresh"
    /\ \E n \in {Add32(now, 50)} :
        /\ now' = n
        /\ \E r \in {ReadCM(n, lastReadMs, lastDistance, sDur)} :
            /\ lastReadMs' = r.lastReadMs
            /\ lastDistance' = r.lastDistance
            /\ sRet' = r.ret
            /\ sPulse' = r.pulse
    /\ clock' = clock + 50
    /\ sPrevRet' = sRet
    /\ UNCHANGED <<pc, loopVars, motorVars, processed, distance, pulsed,
                   startMode, stageSince, scenVars, mapVars, calls,
                   sPrevGap, sTrigAge, sCalls, sTrigs, sDur, sPrior,
                   motorObs, dutyVars, ledVars>>

\* readCM() 10 ms later: rate-limited
EchoCached ==
    /\ ePc = "fresh"
    /\ ePc' = "cached"
    /\ \E n \in {Add32(now, 10)} :
        /\ now' = n
        /\ \E r \in {ReadCM(n, lastReadMs, lastDistance, 0)} :
            /\ lastReadMs' = r.lastReadMs
            /\ lastDistance' = r.lastDistance
            /\ sRet' = r.ret
            /\ sPulse' = r.pulse
    /\ clock' = clock + 10
    /\ sPrevRet' = sRet
    /\ UNCHANGED <<pc, loopVars, motorVars, processed, distance, pulsed,
                   startMode, stageSince, scenVars, mapVars, calls,
                   sPrevGap, sTrigAge, sCalls, sTrigs, sDur, sPrior,
                   motorObs, dutyVars, ledVars>>

NextEcho == EchoTrigger \/ EchoCached

SpecEcho == InitEcho /\ [][NextEcho]_vars

-----------------------------------------------------------------------------
(* The motor driven on its own: begin(), then any sequence of setSpeed(),  *)
(* stop() and brake().                                                     *)

MotorNow == [lastCommandPercent |-> lastCommandPercent,
             in1 |-> in1, in2 |-> in2]

\* the lines of an actuator that performs the writes on every call
AlwaysWrite(percent) ==
    LET p == Coerce(percent) IN
    IF p = 0 THEN ApplyOutputs(0, TRUE) ELSE ApplyOutputs(Duty(Abs(p)), p > 0)

\* the motor and its observers after a call that leaves it in state m
MotorAfter(call, arg, m, skipped, ref, mid) ==
    /\ lastCommandPercent' = m.lastCommandPercent
    /\ in1' = m.in1
    /\ in2' = m.in2
    /\ mCall' = call
    /\ mArg' = arg
    /\ mWasDriven' = (in1 # 0 \/ in2 # 0)
    /\ mSkipped' = skipped
    /\ refIn1' = ref.in1
    /\ refIn2' = ref.in2
    /\ mMid' = mid
    /\ UNCHANGED <<pc, clock, now, loopVars, sonicVars, processed, distance,
                   pulsed, startMode, stageSince, scenVars, mapVars, calls,
                   sonicObs, dutyVars, ledVars>>

MotorBegin ==
    /\ mCall = "none"
    /\ MotorAfter("begin", 0, MotorStop, FALSE, ApplyOutputs(0, TRUE),
                  FirstWrite(MotorNow, 0, TRUE))

MotorSetSpeed(p) ==
    /\ mCall # "none"
    /\ MotorAfter("setSpeed", p, SetSpeed(MotorNow, p),
                  Coerce(p) = lastCommandPercent, AlwaysWrite(p),
                  SetSpeedMid(MotorNow, p))

MotorStopCall ==
    /\ mCall # "none"
    /\ MotorAfter("stop", 0, MotorStop, FALSE, ApplyOutputs(0, TRUE),
                  FirstWrite(MotorNow, 0, TRUE))

MotorBrakeCall ==
    /\ mCall # "none"
    /\ MotorAfter("brake", 0, MotorBrake(MotorNow), FALSE,
                  ApplyOutputs(0, TRUE), FirstWrite(MotorNow, 0, TRUE))

NextMotor ==
    \/ MotorBegin
    \/ \E p \in (-MaxPct)..MaxPct : MotorSetSpeed(p)
    \/ MotorStopCall
    \/ MotorBrakeCall

SpecMotor == Init /\ [][NextMotor]_vars

-----------------------------------------------------------------------------
(* The duty mapping explored alone, over every magnitude 1..MAX_PERCENT *)

DutyApply(m) ==
    /\ dprevm' = dm
    /\ dprevduty' = dduty
    /\ dm' = m
    /\ dduty' = Duty(m)
    /\ UNCHANGED <<pc, clock, now, loopVars, sonicVars, motorVars, processed,
                   distance, pulsed, startMode, stageSince, scenVars,
                   mapVars, calls, sonicObs, motorObs, ledVars>>

NextDuty == \E m \in 1..MAX_PERCENT : DutyApply(m)

SpecDuty == Init /\ [][NextDuty]_vars

-----------------------------------------------------------------------------
(* The indicator called on its own: any sequence of setError() and         *)
(* update() calls.  An update() made in error mode may be put under watch: *)
(* the observer then counts the toggles of the error channel that follow.  *)

\* the observer after a call made dt ms after the previous one took the
\* indicator to l
LedAfter(call, arg, dt, l, watch) ==
    LET entered == l.errorActive /\ ~statusLed.errorActive
        toggled == call = "update" /\ l.errorBlinkOn # statusLed.errorBlinkOn
        age == lMarkAge + dt
    IN  /\ statusLed' = l
        /\ lCall' = call
        /\ lArg' = arg
        /\ lPrevCmd' = IF call = "update" /\ ~statusLed.errorActive
                       THEN Constrain(arg, 0, 100) ELSE lPrevCmd
        /\ lEntryAge' = IF ~l.errorActive THEN -1
                        ELSE IF entered THEN 0
                        ELSE Min(lEntryAge + dt, ERROR_BLINK_MS)
        /\ lEntryToggles' = IF ~l.errorActive \/ entered THEN 0
                            ELSE IF toggled THEN Min(lEntryToggles + 1, 2)
                            ELSE lEntryToggles
        /\ IF watch
           THEN lMarkAge' = 0 /\ lMarkToggles' = 0
           ELSE IF lMarkAge < 0 \/ ~l.errorActive \/ age > ERROR_BLINK_MS
           THEN lMarkAge' = -1 /\ lMarkToggles' = 0
           ELSE /\ lMarkAge' = age
                /\ lMarkToggles' = IF toggled THEN Min(lMarkToggles + 1, 2)
                                   ELSE lMarkToggles
        /\ clock' = clock + dt
        /\ now' = Add32(now, dt)
        /\ UNCHANGED <<pc, loopVars, sonicVars, motorVars, processed,
                       distance, pulsed, startMode, stageSince, scenVars,
                       mapVars, calls, sonicObs, motorObs, dutyVars>>

\* setError(active) called dt ms after the previous call
LedSetErrorCall(dt, active) ==
    LedAfter("setError", active, dt,
             LedSetError(statusLed, Add32(now, dt), active), FALSE)

\* update(p) called dt ms after the previous call
LedUpdateCall(dt, p, watch) ==
    /\ watch => statusLed.errorActive
    /\ LedAfter("update", p, dt, LedUpdate(statusLed, Add32(now, dt), p),
                watch)

NextLed ==
    \/ \E dt \in LedDeltas, active \in BOOLEAN :
            clock + dt <= MaxLedTime /\ LedSetErrorCall(dt, active)
    \/ \E dt \in LedDeltas, p \in LedCmds, watch \in BOOLEAN :
            clock + dt <= MaxLedTime /\ LedUpdateCall(dt, p, watch)

SpecLed == Init /\ [][NextLed]_vars

\* the indicator in normal mode, updated at and inside the ramp step
NextRamp ==
    \E dt \in RampDeltas, p \in LedCmds :
        clock + dt <= MaxRampTime /\ LedUpdateCall(dt, p, FALSE)

SpecRamp == Init /\ [][NextRamp]_vars

-----------------------------------------------------------------------------
(* The indicator in normal mode with a held command: update() is called    *)
(* once per processed tick of a loop that runs for ever, so update() keeps *)
(* being called as millis() advances: weak fairness on the call.           *)

\* update(p) dt ms after the previous call; from HoldBy on p is the command
\* of the previous call
HoldUpdate(dt, p) ==
    /\ clock + dt <= MaxHoldTime
    /\ (clock >= HoldBy /\ lCall = "update") => p = lArg
    /\ LedUpdateCall(dt, p, FALSE)

HoldUpdates == \E dt \in RampDeltas, p \in HoldCmds : HoldUpdate(dt, p)

NextHold == HoldUpdates

SpecHold == Init /\ [][NextHold]_vars /\ WF_vars(HoldUpdates)

-----------------------------------------------------------------------------
(* The colour of the indicator explored alone: update() on an indicator    *)
(* in normal mode that has just stepped to c, for every c in               *)
(* 0..MAX_PERCENT, heading for target, in either blink phase; blink tells  *)
(* whether the 50 -> 0 overlay is marked (it can only be with target 0).   *)

GradientApply(c, target, blink, phase) ==
    /\ blink => target = 0
    /\ LET l == [statusLed EXCEPT !.errorActive = FALSE,
                                  !.currentPercent = c,
                                  !.targetPercent = target,
                                  !.lastCommand = target,
                                  !.blinkingToZero = blink,
                                  !.lastBlinkState = phase,
                                  !.lastStepMs = now]
       IN statusLed' = LedUpdate(l, now, target)
    /\ lCall' = "update"
    /\ lArg' = target
    /\ UNCHANGED <<pc, clock, now, loopVars, sonicVars, motorVars, processed,
                   distance, pulsed, startMode, stageSince, scenVars,
                   mapVars, calls, sonicObs, motorObs, dutyVars, lPrevCmd,
                   lEntryAge, lEntryToggles, lMarkAge, lMarkToggles>>

NextGradient ==
    \E c \in 0..MAX_PERCENT, target \in {0, 50, 100}, blink \in BOOLEAN,
       phase \in BOOLEAN : GradientApply(c, target, blink, phase)

SpecGradient == Init /\ [][NextGradient]_vars

-----------------------------------------------------------------------------
(* Properties of the control loop *)

\* a step that is a processed tick of loop()
IsTick == processed' /\ lastUpdateMs' # lastUpdateMs

\* the near-regime speed as the specification words it
NearExpected(d) ==
    IF d = 0 THEN 100
    ELSE IF d <= 5 THEN 0
    ELSE 2 * ((((d - 5) * 100) \div 55) \div 2)

RoundTripModes ==
    <<"STOPPING", "STOPPING", "REVERSING", "SLOW_FORWARD", "NORMAL">>

\* C1 (as stated): the round-trip scenario, readings 70, 70, 70 at 500 ms,
\* 70 at 700 ms, 40 from NORMAL, resolves the speeds 0, 0, -20, 20 and then
\* the interpolated value, passing through STOPPING, STOPPING, REVERSING,
\* SLOW_FORWARD, NORMAL.
C1_RoundTripAsStated ==
    scen = 5 =>
        /\ SubSeq(scenSpeeds, 1, 4) = <<0, 0, -20, 20>>
        /\ scenModes = RoundTripModes

\* C1 (amended): the round-trip scenario resolves the speeds 0, 0, 0, -20, 62
\* (each tick commands the speed of the mode it started in; 62 is the
\* quantized interpolation of 40 cm), passing through STOPPING, STOPPING,
\* REVERSING, SLOW_FORWARD, NORMAL.
C1_RoundTrip ==
    scen = 5 =>
        /\ scenSpeeds = <<0, 0, 0, -20, 62>>
        /\ scenModes = RoundTripModes

C1_Witness == scen = 5 /\ motorMode = "NORMAL" /\ distance = 40

\* C2: a tick that starts in STOPPING and reads >= 60 resolves speed 0; it
\* switches to REVERSING, with modeStartMs set to now, exactly when
\* now - modeStartMs >= 500, and otherwise stays in STOPPING with the entry
\* time kept; REVERSING is only entered from STOPPING after at least 500 ms
\* of run time in that stage.
C2_StoppingDwell ==
    [][ /\ (IsTick /\ motorMode = "STOPPING" /\ distance' >= 60) =>
            /\ lastSpeedPct' = 0
            /\ IF ~Less32(Sub32(now', modeStartMs), 500)
               THEN motorMode' = "REVERSING" /\ modeStartMs' = now'
               ELSE motorMode' = "STOPPING" /\ modeStartMs' = modeStartMs
        /\ (motorMode' = "REVERSING" /\ motorMode # "REVERSING") =>
            /\ motorMode = "STOPPING"
            /\ clock' - stageSince >= 500
      ]_vars

C2_Witness ==
    /\ processed
    /\ startMode = "STOPPING"
    /\ motorMode = "REVERSING"
    /\ modeStartMs = now
    /\ lastSpeedPct = 0

\* C3: a tick that starts in REVERSING and reads >= 60 resolves speed -20; it
\* switches to SLOW_FORWARD, with modeStartMs set to now, exactly when
\* now - modeStartMs >= 200, and otherwise stays in REVERSING.
C3_ReversingDwell ==
    [][ (IsTick /\ motorMode = "REVERSING" /\ distance' >= 60) =>
            /\ lastSpeedPct' = -20
            /\ IF ~Less32(Sub32(now', modeStartMs), 200)
               THEN motorMode' = "SLOW_FORWARD" /\ modeStartMs' = now'
               ELSE motorMode' = "REVERSING" /\ modeStartMs' = modeStartMs
      ]_vars

C3_Witness ==
    /\ processed
    /\ startMode = "REVERSING"
    /\ motorMode = "SLOW_FORWARD"
    /\ modeStartMs = now
    /\ lastSpeedPct = -20
    /\ clock - 200 > 0

\* C4: a tick that starts in NORMAL and reads >= 60 resolves speed 0 in that
\* tick, sets the mode to STOPPING and records the tick's time as the entry
\* time, whatever the previous speed was.
C4_EnterStopping ==
    [][ (IsTick /\ motorMode = "NORMAL" /\ distance' >= 60) =>
            /\ lastSpeedPct' = 0
            /\ motorMode' = "STOPPING"
            /\ modeStartMs' = now'
            /\ lastCommandPercent' = 0
      ]_vars

C4_Witness ==
    /\ processed
    /\ startMode = "NORMAL"
    /\ motorMode = "STOPPING"
    /\ distance >= 60
    /\ modeStartMs = now
    /\ lastSpeedPct = 0
    /\ in1 = 0

\* C5: a tick that starts in SLOW_FORWARD and reads >= 60 resolves speed +20
\* and leaves the mode SLOW_FORWARD, however long the stage has lasted.
C5_CreepHolds ==
    [][ (IsTick /\ motorMode = "SLOW_FORWARD" /\ distance' >= 60) =>
            /\ lastSpeedPct' = 20
            /\ motorMode' = "SLOW_FORWARD"
            /\ lastCommandPercent' = 20
      ]_vars

C5_Witness ==
    /\ processed
    /\ startMode = "SLOW_FORWARD"
    /\ motorMode = "SLOW_FORWARD"
    /\ lastSpeedPct = 20
    /\ clock - stageSince >= 200

\* C6: a tick reading below 60 sets the mode to NORMAL from every mode, with
\* no dwell, and resolves the near-regime speed in that tick; the far tick
\* that follows a near tick starts at STOPPING with a fresh entry time.
C6_NearResets ==
    [][ /\ (IsTick /\ distance' < 60) =>
            /\ motorMode' = "NORMAL"
            /\ lastSpeedPct' = NearExpected(distance')
        /\ (IsTick /\ processed /\ distance < 60 /\ distance' >= 60) =>
            /\ motorMode' = "STOPPING"
            /\ modeStartMs' = now'
            /\ stageSince' = clock'
            /\ lastSpeedPct' = 0
      ]_vars

C6_Witness ==
    /\ processed
    /\ startMode = "STOPPING"
    /\ motorMode = "NORMAL"
    /\ distance = 40
    /\ lastSpeedPct = 62

C8_Interpolation ==
    /\ (5 < qd /\ qd < 60) =>
        /\ qspeed = 2 * ((((qd - 5) * 100) \div 55) \div 2)
        /\ qspeed % 2 = 0
        /\ qspeed \in 0..98
        /\ qspeed * 55 <= (qd - 5) * 100
        /\ (qd - 5) * 100 < (qspeed + 2) * 55
    /\ (5 < qprevd /\ qprevd <= qd /\ qd < 60) => qprevspeed <= qspeed
    /\ (qd = 32) => qspeed = 48
    /\ (qd = 33) => qspeed = 50
    /\ (2 <= qd /\ qd <= 5) => qspeed = 0

C8_Witness == qprevd = 32 /\ qd = 33 /\ qprevspeed = 48 /\ qspeed = 50

\* C9 (as stated): once in SLOW_FORWARD the loop keeps commanding +20 until
\* a valid reading (2..59) arrives; only such a reading returns it to NORMAL.
C9_OnlyValidReadingLeavesCreep ==
    [][ (IsTick /\ motorMode = "SLOW_FORWARD" /\ distance' \notin 2..59) =>
            /\ lastSpeedPct' = 20
            /\ motorMode' = "SLOW_FORWARD"
      ]_vars

\* C10 (as stated): no value with 0 < |value| < 3 is passed by the control
\* loop to setSpeed.
C10_LoopNeverPassesDeadbandValue ==
    processed => Abs(lastSpeedPct) \notin 1..2

\* C10 (amended): the control loop may pass a value inside the deadband to
\* setSpeed (the reading 7 resolves 2); setSpeed coerces it, so no command
\* with 0 < |value| < 3 is ever applied: the recorded command is 0 and both
\* drive lines are low.
C10_DeadbandApplied ==
    /\ Abs(lastCommandPercent) \notin 1..2
    /\ (processed /\ Abs(lastSpeedPct) < 3) =>
        (lastCommandPercent = 0 /\ in1 = 0 /\ in2 = 0)

C10_Witness ==
    /\ processed
    /\ distance = 7
    /\ lastSpeedPct = 2
    /\ lastCommandPercent = 0
    /\ in1 = 0
    /\ in2 = 0

-----------------------------------------------------------------------------
(* Properties of the sensor *)

ValidCm == 2..400

\* the reading the specification assigns to an echo width
CmExpected(dur) == IF (dur \div 58) \in ValidCm THEN dur \div 58 ELSE 0

\* C11 (as stated): of two consecutive readCM() calls less than 50 ms apart
\* the second returns what the first returned and emits no trigger pulse.
C11_CloseCallsAsStated ==
    (sCalls = 2 /\ sPrevGap < 50) => (sRet = sPrevRet /\ ~sPulse)

\* C11 (amended): a readCM() call made less than 50 ms after the last
\* trigger pulse (after boot while there has been none) returns what the
\* call before it returned and emits no trigger pulse.
C11_CallInsideWindow ==
    (sCalls = 2 /\ sTrigAge < 50) => (sRet = sPrevRet /\ ~sPulse)

C11_Witness ==
    /\ sCalls = 2
    /\ sTrigs >= 1
    /\ sTrigAge = 30
    /\ sRet = 40
    /\ sPrevRet = 40
    /\ ~sPulse

\* C12: two successive trigger pulses are at least 50 ms apart.
C12_PulsesSpaced ==
    (sPulse /\ sTrigs = 2) => sTrigAge >= 50

C12_Witness ==
    /\ sPulse
    /\ sTrigs = 2
    /\ sTrigAge = 50
    /\ sPrevGap < 50

\* C13: a triggering readCM() returns floor(d/58) for an echo width d when
\* that lies in 2..400 and 0 otherwise (0 for the timeout d = 0); every value
\* returned, fresh or cached, is 0 or within 2..400.
C13_Conversion ==
    /\ ePc = "fresh" => (sPulse /\ sRet = CmExpected(sDur))
    /\ ePc = "cached" => (~sPulse /\ sRet = CmExpected(sDur))
    /\ sRet \in {0} \cup ValidCm
    /\ lastDistance \in {0} \cup ValidCm

C13_Witness == ePc = "fresh" /\ sDur = 23257 /\ sRet = 400 /\ sPrior = 0

-----------------------------------------------------------------------------
(* Properties of the motor *)

\* the duty the specification assigns to a magnitude
DutyExpected(m) == 1 + (((m - 1) * 254) \div 99)

\* the percent the specification has setSpeed(p) apply
Applied(p) ==
    LET c == IF p > 100 THEN 100 ELSE IF p < -100 THEN -100 ELSE p
    IN IF -3 < c /\ c < 3 THEN 0 ELSE c

\* C15: setSpeed(p) with |p| < 3, of either sign and from any actuator
\* state after begin(), leaves duty 0 on both drive lines.
C15_DeadbandStops ==
    (mCall = "setSpeed" /\ -3 < mArg /\ mArg < 3) => (in1 = 0 /\ in2 = 0)

C15_Witness ==
    /\ mCall = "setSpeed"
    /\ mArg = -2
    /\ mWasDriven
    /\ in1 = 0
    /\ in2 = 0

\* C16: duty(m) = 1 + floor((m-1)*254/99) is strictly increasing over
\* 1..100, at least 1, with duty(1) = 1 and duty(100) = 255.
C16_DutyMapping ==
    /\ dduty = DutyExpected(dm)
    /\ dduty >= 1
    /\ dprevm < dm => dprevduty < dduty
    /\ dm = 1 => dduty = 1
    /\ dm = 100 => dduty = 255

C16_Witness == dprevm = 99 /\ dm = 100 /\ dprevduty = 252 /\ dduty = 255

\* C17: after setSpeed(p), with q the value of p clamped to -100..100 and
\* zeroed by the deadband: q > 0 gives IN1 = duty(q) and IN2 low, q < 0 gives
\* IN1 low and IN2 = duty(|q|), q = 0 gives both low; p beyond +/-100 behaves
\* like +/-100.
C17_DriveLines ==
    mCall = "setSpeed" =>
        LET q == Applied(mArg) IN
        /\ q > 0 => (in1 = DutyExpected(q) /\ in2 = 0)
        /\ q < 0 => (in1 = 0 /\ in2 = DutyExpected(-q))
        /\ q = 0 => (in1 = 0 /\ in2 = 0)
        /\ mArg > 100 => (in1 = 255 /\ in2 = 0)
        /\ mArg < -100 => (in1 = 0 /\ in2 = 255)

C17_Witness ==
    /\ mCall = "setSpeed"
    /\ mArg = -103
    /\ in1 = 0
    /\ in2 = 255
    /\ mWasDriven

\* C18 (as stated): brake() leaves the drive outputs in a state distinct
\* from the coast state of a zero speed command (IN1 low, IN2 low).
C18_BrakeDistinctFromCoast ==
    mCall = "brake" => <<in1, in2>> # <<0, 0>>

\* C19: after every call following begin() the drive lines equal those of
\* an actuator that performs the writes on every call, and correspond to
\* lastCommandPercent.
C19_SuppressionUnobservable ==
    mCall # "none" =>
        /\ in1 = refIn1
        /\ in2 = refIn2
        /\ lastCommandPercent > 0 =>
               (in1 = DutyExpected(lastCommandPercent) /\ in2 = 0)
        /\ lastCommandPercent < 0 =>
               (in1 = 0 /\ in2 = DutyExpected(-lastCommandPercent))
        /\ lastCommandPercent = 0 => (in1 = 0 /\ in2 = 0)

C19_Witness ==
    /\ mCall = "setSpeed"
    /\ mSkipped
    /\ mArg = -50
    /\ in2 = refIn2
    /\ in2 > 0

-----------------------------------------------------------------------------
(* Properties of the scheduler *)

\* C20: a loop() invocation arriving less than 10 ms after the last
\* processed tick changes no state of the loop, the sensor or the motor and
\* makes no call; any other invocation is a processed tick that sets
\* lastUpdateMs to the current time, so one tick is processed after a long
\* gap and the invocation right after it is early again.
C20_EarlyReturnFrame ==
    [][ pc = "run" =>
          IF Less32(Sub32(now', lastUpdateMs), 10)
          THEN /\ UNCHANGED <<loopVars, sonicVars, motorVars, statusLed>>
               /\ UNCHANGED <<distance, pulsed, startMode, stageSince>>
               /\ calls' = <<>>
               /\ ~processed'
          ELSE /\ lastUpdateMs' = now'
               /\ processed'
               /\ Len(calls') = 5
      ]_vars

C20_Witness ==
    /\ pc = "run"
    /\ ~processed
    /\ calls = <<>>
    /\ Sub32(now, lastUpdateMs) = <<0, 5>>
    /\ motorMode = "STOPPING"
    /\ lastUpdateMs = lastReadMs

-----------------------------------------------------------------------------
(* Claims about the order of a tick and about the indicator *)

C22_OneToggleInHalfPeriod ==
    (lCall = "update" /\ lMarkAge = ERROR_BLINK_MS) => lMarkToggles = 1

\* the toggle fell on an update() between the two, not on the second
C22_Witness ==
    /\ lCall = "update"
    /\ lMarkAge = ERROR_BLINK_MS
    /\ lMarkToggles = 1
    /\ statusLed.errorActive
    /\ statusLed.lastErrorBlinkMs # now

\* C23: setError(true) in normal mode sets the blink phase to off and
\* restarts the blink timer; setError(true) in error mode changes nothing;
\* the error channel is off after every update() made less than 500 ms
\* after entry, and the first toggle after entry turns it on.
C23_EntryResetsPhase ==
    [][ /\ (lCall' = "setError" /\ lArg' = TRUE) =>
              IF statusLed.errorActive
              THEN statusLed' = statusLed
              ELSE /\ statusLed'.errorActive
                   /\ ~statusLed'.errorBlinkOn
                   /\ statusLed'.lastErrorBlinkMs = now'
        /\ (lCall' = "update" /\ statusLed'.errorActive
              /\ lEntryAge' < ERROR_BLINK_MS) =>
              ~statusLed'.errorBlinkOn /\ statusLed'.pinB = 0
        /\ (lCall' = "update" /\ statusLed.errorActive
              /\ lEntryToggles = 0 /\ lEntryToggles' = 1) =>
              statusLed'.errorBlinkOn /\ statusLed'.pinB = MAX_BRIGHTNESS
      ]_vars

\* error mode entered some time after power-up: 500 ms after the entry the
\* first toggle has turned the channel on
C23_Witness ==
    /\ lCall = "update"
    /\ statusLed.errorActive
    /\ lEntryAge = ERROR_BLINK_MS
    /\ lEntryToggles = 1
    /\ statusLed.errorBlinkOn
    /\ statusLed.pinB = MAX_BRIGHTNESS
    /\ clock > ERROR_BLINK_MS

\* C24: update(p) in error mode leaves currentPercent, targetPercent,
\* lastCommand, blinkingToZero, the blink phase of the overlay and the ramp
\* and blink timers as they were, for every p, and drives the two gradient
\* channels to 0 and the error channel fully on or off.
C24_ErrorIgnoresCommand ==
    [][ (lCall' = "update" /\ statusLed.errorActive) =>
          /\ statusLed'.currentPercent = statusLed.currentPercent
          /\ statusLed'.targetPercent = statusLed.targetPercent
          /\ statusLed'.lastCommand = statusLed.lastCommand
          /\ statusLed'.blinkingToZero = statusLed.blinkingToZero
          /\ statusLed'.lastBlinkState = statusLed.lastBlinkState
          /\ statusLed'.lastStepMs = statusLed.lastStepMs
          /\ statusLed'.lastBlinkMs = statusLed.lastBlinkMs
          /\ statusLed'.pinR = 0
          /\ statusLed'.pinG = 0
          /\ statusLed'.pinB = IF statusLed'.errorBlinkOn
                               THEN MAX_BRIGHTNESS ELSE 0
      ]_vars

\* update(50) in error mode, a ramp step overdue and the target at 100
C24_Witness ==
    /\ lCall = "update"
    /\ lArg = 50
    /\ statusLed.errorActive
    /\ statusLed.targetPercent = 100
    /\ statusLed.currentPercent = 1
    /\ ~Less32(Sub32(now, statusLed.lastStepMs), STEP_INTERVAL_MS)
    /\ statusLed.pinB = MAX_BRIGHTNESS

\* C25: an update() in normal mode sets targetPercent to the command
\* clamped to 0..100; it changes currentPercent by at most 1, toward that
\* target, and only when 20 ms or more have passed since the last step;
\* targetPercent and currentPercent stay within 0..100.
C25_RampStep ==
    [][ (lCall' = "update" /\ ~statusLed.errorActive) =>
          LET cp == statusLed.currentPercent
              next == statusLed'.currentPercent
              target == statusLed'.targetPercent
          IN  /\ target = Constrain(lArg', 0, 100)
              /\ next - cp \in {-1, 0, 1}
              /\ next > cp => cp < target
              /\ next < cp => cp > target
              /\ next # cp =>
                    ~Less32(Sub32(now', statusLed.lastStepMs), STEP_INTERVAL_MS)
              /\ target \in 0..100
              /\ next \in 0..100
      ]_vars

\* update(-20) inside the step interval: the target is 0 and currentPercent
\* has not moved
C25_Witness ==
    /\ lCall = "update"
    /\ lArg = -20
    /\ statusLed.targetPercent = 0
    /\ statusLed.currentPercent = 3
    /\ statusLed.lastStepMs # now

\* the blink overlay does not apply to the colour the indicator l emits
NoOverlay(l) == ~(l.blinkingToZero /\ l.currentPercent > 0)

\* C26: in normal mode with no blink overlay the colour emitted depends on
\* currentPercent only; up to 50 the red channel is 255 and the green one
\* rises monotonically from 0 at 0 to 255 at 50; above 50 the green channel
\* is 255 and the red one falls monotonically to 0 at 100; the error
\* channel is 0.
C26_Gradient ==
    [][ (lCall' = "update" /\ NoOverlay(statusLed')) =>
          LET old == statusLed.currentPercent
              cp == statusLed'.currentPercent
          IN  /\ statusLed'.pinB = 0
              /\ cp <= 50 => statusLed'.pinR = 255
              /\ cp > 50 => statusLed'.pinG = 255
              /\ cp = 0 => statusLed'.pinG = 0
              /\ cp = 50 => statusLed'.pinG = 255
              /\ cp = 100 => statusLed'.pinR = 0
              /\ (lCall = "update" /\ NoOverlay(statusLed)) =>
                    /\ old = cp =>
                          /\ statusLed'.pinR = statusLed.pinR
                          /\ statusLed'.pinG = statusLed.pinG
                    /\ (old <= cp /\ cp <= 50) =>
                          statusLed.pinG <= statusLed'.pinG
                    /\ (50 < old /\ old <= cp) =>
                          statusLed.pinR >= statusLed'.pinR
      ]_vars

\* at 80 % the single-precision product 255 * (1 - 0.6) falls just below
\* 102 and the red channel is 101
C26_Witness ==
    /\ lCall = "update"
    /\ statusLed.currentPercent = 80
    /\ statusLed.targetPercent = 100
    /\ statusLed.lastBlinkState
    /\ statusLed.pinR = 101
    /\ statusLed.pinG = 255
    /\ statusLed.pinB = 0

\* C27: an update() in normal mode whose clamped command differs from
\* targetPercent sets blinkingToZero exactly when the previous command
\* evaluated in normal mode was 50 and the new one is 0, and clears it for
\* every other change; one whose clamped command equals targetPercent
\* leaves blinkingToZero as it was.
C27_BlinkMark ==
    [][ (lCall' = "update" /\ ~statusLed.errorActive) =>
          LET c == Constrain(lArg', 0, 100) IN
          IF c # statusLed.targetPercent
          THEN statusLed'.blinkingToZero = (lPrevCmd = 50 /\ c = 0)
          ELSE statusLed'.blinkingToZero = statusLed.blinkingToZero
      ]_vars

\* update(-20) after update(50): the command is clamped to 0 and the
\* transition is marked, with currentPercent still above 0
C27_Witness ==
    /\ lCall = "update"
    /\ lArg = -20
    /\ ~statusLed.errorActive
    /\ statusLed.blinkingToZero
    /\ statusLed.targetPercent = 0
    /\ statusLed.currentPercent > 0

\* C28 (as stated): after a 50 -> 0 transition has set blinkingToZero, an
\* update() that leaves currentPercent at 0 emits no light at all.
C28_OffAtZero ==
    (lCall = "update" /\ statusLed.blinkingToZero
       /\ statusLed.currentPercent = 0) =>
        /\ statusLed.pinR = 0
        /\ statusLed.pinG = 0
        /\ statusLed.pinB = 0

\* C28 (amended): after a 50 -> 0 transition has set blinkingToZero, an
\* update() that leaves currentPercent at 0 emits full red (255, 0, 0) in
\* either blink phase.
C28_RedAtZero ==
    (lCall = "update" /\ statusLed.blinkingToZero
       /\ statusLed.currentPercent = 0) =>
        /\ statusLed.pinR = MAX_BRIGHTNESS
        /\ statusLed.pinG = 0
        /\ statusLed.pinB = 0

\* the ramp reached 0 with the blink phase left on full brightness
C28_Witness ==
    /\ lCall = "update"
    /\ statusLed.blinkingToZero
    /\ statusLed.currentPercent = 0
    /\ statusLed.lastBlinkState
    /\ statusLed.lastBlinkMs # Zero32
    /\ statusLed.pinR = MAX_BRIGHTNESS

-----------------------------------------------------------------------------
(* Claims about the rate limit of the sensor and the range of the speed *)

\* C29: once the sensor has been triggered, a readCM() call made less than
\* 50 ms after the last trigger returns the cached reading, leaves the
\* cache and the trigger time as they were and does not pulse TRIG; a call
\* made 50 ms or more after the last trigger pulses TRIG and records its
\* own time, however recent the call before it.
C29_WindowFromLastTrigger ==
    [][ (sTrigs >= 1 /\ sCalls' >= 1 /\ clock' # clock) =>
          IF sTrigAge' < MIN_INTERVAL_MS
          THEN /\ sRet' = lastDistance
               /\ UNCHANGED <<lastReadMs, lastDistance>>
               /\ ~sPulse'
          ELSE /\ sPulse'
               /\ lastReadMs' = now'
      ]_vars

\* the second rate-limited call in a row, 40 ms after the trigger
C29_Witness ==
    /\ sCalls = 2
    /\ sTrigs >= 1
    /\ sTrigAge = 40
    /\ sPrevGap = 20
    /\ ~sPulse
    /\ sRet = 40
    /\ lastDistance = 40
    /\ lastReadMs # now

\* C30: the speed a processed tick hands to the motor, the indicator and
\* the presenter is -20 or an even value in 0..100; it is negative only in
\* a tick that started in REVERSING, and 100 only in a tick whose reading
\* is the sentinel 0.
C30_SpeedRange ==
    processed =>
        /\ \/ lastSpeedPct = -20
           \/ lastSpeedPct \in 0..100 /\ lastSpeedPct % 2 = 0
        /\ lastSpeedPct < 0 => startMode = "REVERSING"
        /\ lastSpeedPct = 100 => distance = 0
        /\ calls[2] = <<"motor.setSpeed", lastSpeedPct>>
        /\ calls[4] = <<"statusLed.update", lastSpeedPct>>
        /\ calls[5] = <<"display.update", distance, lastSpeedPct, errorState>>

\* the tick that ends the reverse dwell still hands over -20
C30_Witness ==
    /\ processed
    /\ startMode = "REVERSING"
    /\ motorMode = "SLOW_FORWARD"
    /\ distance = 70
    /\ lastSpeedPct = -20
    /\ in2 = Duty(20)
    /\ calls[2] = <<"motor.setSpeed", -20>>

-----------------------------------------------------------------------------
(* Claims about the maneuver, the boot window, the error flag, the drive   *)
(* lines, the wrap of millis() and the indicator's members                 *)

\* C37 (as stated): after begin() the two drive lines never carry duty at
\* the same time, neither when a call has returned nor between the two pin
\* writes of a call.
C37_NeverBothDriven ==
    mCall # "none" =>
        /\ in1 = 0 \/ in2 = 0
        /\ mMid.in1 = 0 \/ mMid.in2 = 0

\* when a call has returned, at most one line carries duty
OneLineAfterCall == mCall # "none" => (in1 = 0 \/ in2 = 0)

\* C31: one tick leaves the mode alone, moves it one stage on
\* (NORMAL -> STOPPING -> REVERSING -> SLOW_FORWARD) or returns it to NORMAL,
\* however old the mode is; a stage is only left forward with a far reading
\* and only entered NORMAL with a near one.
C31_OneStagePerTick ==
    /\ \/ qnext = qmode
       \/ qmode = "NORMAL" /\ qnext = "STOPPING"
       \/ qmode = "STOPPING" /\ qnext = "REVERSING"
       \/ qmode = "REVERSING" /\ qnext = "SLOW_FORWARD"
       \/ qnext = "NORMAL"
    /\ (qnext # qmode /\ qnext # "NORMAL") => qd >= MAX_DIST_CM
    /\ (qnext = "NORMAL" /\ qmode # "NORMAL") => qd < MAX_DIST_CM

\* a far tick 65536 ms after STOPPING was entered, both dwells long over,
\* only moves on to REVERSING
C31_Witness ==
    /\ qmode = "STOPPING"
    /\ qage = <<1, 0>>
    /\ qd = 70
    /\ qnext = "REVERSING"

\* C34: the speed a far tick resolves is that of the mode the tick started
\* in: the tick that ends the stop dwell still commands 0 and leaves both
\* drive lines low, the tick that ends the reverse dwell still commands -20
\* and leaves IN1 low; -20 is first commanded by a far tick that starts in
\* REVERSING, +20 by one that starts in SLOW_FORWARD.
C34_SpeedOfStartMode ==
    [][ (IsTick /\ distance' >= MAX_DIST_CM) =>
            /\ lastSpeedPct' = CASE motorMode = "NORMAL" -> 0
                                 [] motorMode = "STOPPING" -> 0
                                 [] motorMode = "REVERSING" -> -20
                                 [] motorMode = "SLOW_FORWARD" -> 20
            /\ calls'[2] = <<"motor.setSpeed", lastSpeedPct'>>
            /\ (motorMode = "STOPPING" /\ motorMode' = "REVERSING") =>
                 lastSpeedPct' = 0 /\ in1' = 0 /\ in2' = 0
            /\ (motorMode = "REVERSING" /\ motorMode' = "SLOW_FORWARD") =>
                 lastSpeedPct' = -20 /\ in1' = 0 /\ in2' = Duty(20)
            /\ (lastSpeedPct' = -20 /\ lastSpeedPct # -20) =>
                 motorMode = "REVERSING"
      ]_vars

\* the tick that ends the stop dwell has commanded 0 with both lines low
C34_Witness ==
    /\ processed
    /\ startMode = "STOPPING"
    /\ motorMode = "REVERSING"
    /\ distance >= MAX_DIST_CM
    /\ calls[2] = <<"motor.setSpeed", 0>>
    /\ in1 = 0
    /\ in2 = 0

\* C35: while millis() is below 50 no trigger has been emitted: every tick
\* processed in that window gets the sentinel 0 from readCM() without a
\* pulse and commands 100 % forward, as setup() did before it.
C35_BootWindow ==
    /\ (pc = "run" /\ clock < MIN_INTERVAL_MS) =>
        /\ lastReadMs = Zero32 /\ lastDistance = 0
        /\ motorMode = "NORMAL"
        /\ lastSpeedPct = 100
        /\ in1 = 255 /\ in2 = 0
    /\ (processed /\ clock < MIN_INTERVAL_MS) =>
        /\ distance = 0
        /\ ~pulsed
        /\ calls[1] = <<"usonic.readCM">>
        /\ calls[2] = <<"motor.setSpeed", 100>>

\* a tick processed 40 ms after boot read 0 without a pulse and commanded 100
C35_Witness ==
    /\ processed
    /\ clock = 40
    /\ lastUpdateMs = now
    /\ distance = 0
    /\ ~pulsed
    /\ lastSpeedPct = 100

\* C36: in the control loop the error flag is never set: errorState is
\* false, every tick calls setError(false) and hands false to the display,
\* the indicator is never in error mode and its blue (error) channel stays
\* dark, also in ticks whose pulse timed out or measured out of range.
C36_ErrorNeverRaised ==
    /\ ~errorState
    /\ ~statusLed.errorActive
    /\ ~statusLed.errorBlinkOn
    /\ statusLed.lastErrorBlinkMs = Zero32
    /\ statusLed.pinB = 0
    /\ processed =>
        /\ calls[3] = <<"statusLed.setError", FALSE>>
        /\ calls[5] = <<"display.update", distance, lastSpeedPct, FALSE>>
    /\ (pc = "run" /\ Len(calls) = 7) =>
        calls[7] = <<"display.update", 0, 100, FALSE>>

\* a tick whose pulse got no valid echo, after the indicator has left 100 %
C36_Witness ==
    /\ processed
    /\ pulsed
    /\ distance = 0
    /\ lastUpdateMs = now
    /\ clock >= 100
    /\ statusLed.targetPercent = 100
    /\ statusLed.currentPercent < 100
    /\ statusLed.pinR > 0

\* C39: after every setError() and update() call lastCommand equals
\* targetPercent and the 50 -> 0 mark is only set while the target is 0; so
\* whenever the blink overlay applies (mark set, currentPercent above 0) the
\* indicator is ramping down to 0, and a call never raises currentPercent
\* while the mark stays set.
C39_MarkOnlyTowardZero ==
    [][ /\ statusLed'.lastCommand = statusLed'.targetPercent
        /\ statusLed'.blinkingToZero => statusLed'.targetPercent = 0
        /\ (statusLed'.blinkingToZero /\ statusLed'.currentPercent > 0) =>
             statusLed'.targetPercent < statusLed'.currentPercent
        /\ (statusLed.blinkingToZero /\ statusLed'.blinkingToZero) =>
             statusLed'.currentPercent <= statusLed.currentPercent
        /\ (statusLed'.blinkingToZero /\ ~statusLed.blinkingToZero) =>
             /\ lCall' = "update"
             /\ statusLed.lastCommand = COLOR_TRANSITION_THRESHOLD
      ]_vars

\* the overlay has dimmed the colour of an indicator ramping down from 50
C39_Witness ==
    /\ lCall = "update"
    /\ statusLed.blinkingToZero
    /\ statusLed.lastCommand = 0
    /\ statusLed.currentPercent \in 1..49
    /\ ~statusLed.lastBlinkState
    /\ statusLed.pinR = DIM_BRIGHTNESS

\* ms between the start of the run across the wrap and the instant at which
\* millis() returned x
SinceWrapStart(x) ==
    IF x[1] = WrapStart[1] THEN x[2] - WrapStart[2]
    ELSE x[2] + WrapLead

\* C38: across the wrap of millis() every elapsed-time test agrees with the
\* time that really passed: an invocation is processed exactly when 10 ms
\* have passed since the last processed one, a tick pulses exactly when 50 ms
\* have passed since the last pulse, and a far tick ends the stop dwell
\* exactly when 500 ms, the reverse dwell exactly when 200 ms, have passed
\* since the stage was entered.
C38_ElapsedAcrossWrap ==
    [][ /\ SinceWrapStart(now') = clock'
        /\ SinceWrapStart(modeStartMs) = stageSince
        /\ processed' <=>
             clock' - SinceWrapStart(lastUpdateMs) >= UPDATE_INTERVAL_MS
        /\ processed' =>
             (pulsed' <=>
                clock' - SinceWrapStart(lastReadMs) >= MIN_INTERVAL_MS)
        /\ (processed' /\ distance' >= MAX_DIST_CM
            /\ motorMode = "STOPPING") =>
             (motorMode' = "REVERSING" <=>
                clock' - stageSince >= STOP_TIME_MS)
        /\ (processed' /\ distance' >= MAX_DIST_CM
            /\ motorMode = "REVERSING") =>
             (motorMode' = "SLOW_FORWARD" <=>
                clock' - stageSince >= REVERSE_TIME_MS)
      ]_vars

\* a stop dwell entered before the wrap has been ended by a tick after it
C38_Witness ==
    /\ processed
    /\ startMode = "STOPPING"
    /\ motorMode = "REVERSING"
    /\ now[1] = 0
    /\ modeStartMs = now
    /\ clock < WrapLead + STOP_TIME_MS

\* C32: with every reading from 100 ms after boot on at 60 cm or more and
\* ticks processed for ever, the mode eventually is SLOW_FORWARD and stays
\* so, and the resolved speed eventually is +20 and stays so.
C32_SettlesInCreep ==
    <>[](motorMode = "SLOW_FORWARD" /\ lastSpeedPct = 20)

\* a tick that started in SLOW_FORWARD with a far reading has commanded +20
C32_Witness ==
    /\ processed
    /\ startMode = "SLOW_FORWARD"
    /\ motorMode = "SLOW_FORWARD"
    /\ distance >= MAX_DIST_CM
    /\ lastSpeedPct = 20
    /\ in1 = Duty(20)

\* C33: in normal mode an update() that leaves the target unchanged never
\* moves currentPercent away from it, and with the command held and update()
\* called for ever currentPercent eventually equals targetPercent and stays
\* equal.
C33_RampConverges ==
    /\ [][ (lCall' = "update" /\ ~statusLed.errorActive
            /\ statusLed'.targetPercent = statusLed.targetPercent) =>
             Abs(statusLed'.currentPercent - statusLed'.targetPercent)
                <= Abs(statusLed.currentPercent - statusLed.targetPercent)
         ]_vars
    /\ <>[](statusLed.currentPercent = statusLed.targetPercent)

\* with update(12) held, currentPercent has climbed to the target 12
C33_Witness ==
    /\ lCall = "update"
    /\ lArg = 12
    /\ clock > HoldBy
    /\ ~statusLed.errorActive
    /\ statusLed.targetPercent = 12
    /\ statusLed.currentPercent = 12

=============================================================================
